---------------------------- MODULE Spec2Model ----------------------------
(***************************************************************************)
(* A model of the ROHC library's compressor side:                          *)
(*   - the ROHCv2 IP-only compression profile (comp_rfc5225_ip.c): the     *)
(*     IR/FO state machine, the feedback handler and the IR / Normal       *)
(*     packet framing;                                                     *)
(*   - the packet, extension and change decisions of the RFC 3095 RTP      *)
(*     compression profile (c_rtp.c).                                      *)
(* Code that the profiles call but that lives in other files of the        *)
(* library (state/mode change helpers, CID coding, CRC, the generic        *)
(* extension decision) is modelled from the library's specification.       *)
(***************************************************************************)
EXTENDS Integers, Sequences, FiniteSets, TLC

VARIABLES
    cid_type,     \* compressor->medium.cid_type
    cid,          \* context->cid
    rfc_strict,   \* whether the build defines ROHC_RFC_STRICT_DECOMPRESSOR
    context,      \* the ROHCv2 IP-only context: mode, state, ir_count, fo_count
    last,         \* the last operation on the IP-only context and what it returned
    hist,         \* what happened to the IP-only context since its creation
    g,            \* RTP profile: the generic context and its per-packet 'tmp' part
    rtp,          \* RTP profile: the RTP context (sc_rtp_context)
    pkt,          \* RTP profile: the UDP/RTP fields of the packet being compressed
    res           \* RTP profile: the last decision taken and its result

ipvars  == <<cid_type, cid, rfc_strict, context, last, hist>>
rtpvars == <<g, rtp, pkt, res>>
vars    == <<cid_type, cid, rfc_strict, context, last, hist, g, rtp, pkt, res>>

---------------------------------------------------------------------------
(* Bounds of the model *)

\* longest uncompressed packet, in bytes
MaxLen == 3
\* largest output buffer handed to the compressor, in bytes
MaxBuf == 5
\* cap of the ir_count / fo_count counters
MaxCount == 4
\* cap of the number of packets counted in the history of a context
MaxPkts == 4
\* largest value of the change counters of a drawn RTP context
MaxChangeCount == 4

---------------------------------------------------------------------------
(* Program constants *)

\* number of IR packets to transmit before leaving the IR state
MAX_IR_COUNT == 3

\* number of IR-DYN packets to transmit in the FO state
MAX_FO_COUNT == 3

\* number of transmissions of ts_stride before the scaled TS is sent
ROHC_INIT_TS_STRIDE_MIN == 3

\* number of bits that SDVL encodes on 4 bytes, its maximum
MAX_BITS_IN_4_BYTE_SDVL == 29

\* low byte of ROHCv2_PROFILE_IP (0x0104)
ROHCv2_PROFILE_IP_LSB == 4

\* type octet written by rohc_comp_rfc5225_ip_code_IR_packet (0xfc)
IR_TYPE_OCTET == 252

\* initial value of the CRC-8 (CRC_INIT_8, 0xff)
CRC_INIT_8 == 255

\* reflected CRC-8 polynomial of RFC 3095 (x^8 + x^2 + x + 1 -> 0xe0)
CRC_POLY_8 == 224

---------------------------------------------------------------------------
(* Bytes and packets *)

\* the first bytes of the uncompressed packets of the model: an IPv4 first
\* byte (0x45), an IPv6 first byte (0x60), a byte 0b11111xxx that is also
\* the IR type octet (0xfc) and a byte that looks like an add-CID (0xe5)
FirstBytes == {69, 96, 252, 229}

\* the bytes that follow the first one: copied as they are, the model takes
\* the value of the IR type octet for them
NextBytes == {252}

RECURSIVE SeqsUpTo(_, _)
SeqsUpTo(S, n) ==
    IF n = 0 THEN {<<>>}
    ELSE LET shorter == SeqsUpTo(S, n - 1)
         IN shorter \cup {Append(t, b) : t \in {u \in shorter : Len(u) = n - 1}, b \in S}

\* the uncompressed packets: at least one byte
Packets == {<<b>> \o t : b \in FirstBytes, t \in SeqsUpTo(NextBytes, MaxLen - 1)}

\* the sizes of the output buffer handed to the compressor
BufSizes == {0, 2, MaxBuf}

RECURSIVE Xor(_, _, _)
Xor(a, b, n) ==
    IF n = 0 THEN 0
    ELSE (((a % 2) + (b % 2)) % 2) + 2 * Xor(a \div 2, b \div 2, n - 1)

\* ip_get_version: the versions the packet parser may find for the outer
\* header of a packet: the first nibble, and whether the rest of the header
\* is well formed
ip_get_version(data) ==
    LET nibble == data[1] \div 16
    IN IF nibble = 4 THEN {"IPV4", "IPV4_MALFORMED"}
       ELSE IF nibble = 6 THEN {"IPV6", "IPV6_MALFORMED"}
       ELSE {"IP_UNKNOWN"}

---------------------------------------------------------------------------
(* Helpers of the library that the IP-only profile calls *)

\* one entry of the CRC-8 table, as crc_init_table computes it: eight
\* shifts of the reflected polynomial
RECURSIVE crc_table_entry(_, _)
crc_table_entry(crc, j) ==
    IF j = 0 THEN crc
    ELSE crc_table_entry(IF crc % 2 = 1 THEN Xor(crc \div 2, CRC_POLY_8, 8)
                         ELSE crc \div 2, j - 1)

\* compressor->crc_table_8
crc_table_8 == [i \in 0 .. 255 |-> crc_table_entry(i, 8)]

\* the exclusive or of two bytes
xor8 == [a \in 0 .. 255 |-> [b \in 0 .. 255 |-> Xor(a, b, 8)]]

\* crc_calculate(ROHC_CRC_TYPE_8, data, length, init): the CRC-8 of the
\* bytes of data from index i on, starting from crc
RECURSIVE crc_calculate(_, _, _)
crc_calculate(data, i, crc) ==
    IF i > Len(data) THEN crc
    ELSE crc_calculate(data, i + 1, crc_table_8[xor8[data[i]][crc]])

\* SDVL encoding of a large CID (1 byte up to 127, 2 bytes up to 16383)
sdvl_encode(value) ==
    IF value <= 127 THEN <<value>>
    ELSE <<128 + (value \div 256), (value % 256)>>

\* code_cid_values: the add-CID octet or the large CID, around the place
\* of the first octet; ret < 1 when the buffer is too small
code_cid_values(type, c, dest_size) ==
    IF type = "SMALL"
    THEN IF c > 0
         THEN IF dest_size < 2
              THEN [ret |-> 0, first_position |-> 0, bytes |-> <<>>]
              ELSE [ret |-> 2, first_position |-> 1, bytes |-> <<224 + c, 0>>]
         ELSE IF dest_size < 1
              THEN [ret |-> 0, first_position |-> 0, bytes |-> <<>>]
              ELSE [ret |-> 1, first_position |-> 0, bytes |-> <<0>>]
    ELSE IF dest_size < 1 + Len(sdvl_encode(c))
         THEN [ret |-> 0, first_position |-> 0, bytes |-> <<>>]
         ELSE [ret |-> 1 + Len(sdvl_encode(c)), first_position |-> 0,
               bytes |-> <<0>> \o sdvl_encode(c)]

\* rohc_comp_change_state: a change of state resets the confidence counters
rohc_comp_change_state(c, new_state) ==
    IF new_state # c.state
    THEN [c EXCEPT !.state = new_state, !.ir_count = 0, !.fo_count = 0]
    ELSE c

\* rohc_comp_change_mode
rohc_comp_change_mode(c, new_mode) ==
    IF new_mode # c.mode THEN [c EXCEPT !.mode = new_mode] ELSE c

\* rohc_comp_periodic_down_transition: when the refresh timeout (a number of
\* packets or a time) is reached, go back to the IR state; refresh says
\* whether the timeout is reached for this packet
rohc_comp_periodic_down_transition(c, refresh) ==
    IF refresh THEN rohc_comp_change_state(c, "IR") ELSE c

---------------------------------------------------------------------------
(* The ROHCv2 IP-only compression profile *)

\* decide_state without the forced IR for packets that are not IPv4/IPv6
decide_state_without_forced_IR(c, ip_vers, refresh) ==
    LET c1 == IF c.state = "IR" /\ c.ir_count >= MAX_IR_COUNT
              THEN rohc_comp_change_state(c, "FO")
              ELSE c
    IN IF c1.mode = "U"
       THEN rohc_comp_periodic_down_transition(c1, refresh)
       ELSE c1

\* decide_state with the periodic refreshes applied in every mode
decide_state_refresh_in_any_mode(c, ip_vers, refresh) ==
    LET c1 == IF ip_vers # "IPV4" /\ ip_vers # "IPV6"
              THEN rohc_comp_change_state(c, "IR")
              ELSE IF c.state = "IR" /\ c.ir_count >= MAX_IR_COUNT
                   THEN rohc_comp_change_state(c, "FO")
                   ELSE c
    IN rohc_comp_periodic_down_transition(c1, refresh)

\* decide_state with the FO -> SO transition of the ROHCv1 profiles
decide_state_with_SO(c, ip_vers, refresh) ==
    LET c1 == IF ip_vers # "IPV4" /\ ip_vers # "IPV6"
              THEN rohc_comp_change_state(c, "IR")
              ELSE IF c.state = "IR" /\ c.ir_count >= MAX_IR_COUNT
                   THEN rohc_comp_change_state(c, "FO")
                   ELSE IF c.state = "FO" /\ c.fo_count >= MAX_FO_COUNT
                        THEN rohc_comp_change_state(c, "SO")
                        ELSE c
    IN IF c1.mode = "U"
       THEN rohc_comp_periodic_down_transition(c1, refresh)
       ELSE c1

\* rohc_comp_rfc5225_ip_decide_state; refresh says whether the timeout of
\* the periodic refreshes is reached for this packet
rohc_comp_rfc5225_ip_decide_state(c, ip_vers, refresh) ==
    LET c1 == IF ip_vers # "IPV4" /\ ip_vers # "IPV6"
              THEN rohc_comp_change_state(c, "IR")
              ELSE IF c.state = "IR" /\ c.ir_count >= MAX_IR_COUNT
                   THEN rohc_comp_change_state(c, "FO")
                   ELSE c
    IN IF c1.mode = "U"
       THEN rohc_comp_periodic_down_transition(c1, refresh)
       ELSE c1

\* the result of a packet builder: the bytes written, the return value and
\* the payload offset
CodeError == [ret |-> -1, rohc_pkt |-> <<>>, payload_offset |-> -1]

rohc_comp_rfc5225_ip_code_IR_packet(type, c, data, rohc_pkt_max_len) ==
    LET r == code_cid_values(type, c, rohc_pkt_max_len)
        counter == r.ret
    IN IF r.ret < 1 THEN CodeError
       ELSE IF rohc_pkt_max_len - counter < 2 THEN CodeError
       ELSE LET hdr == [r.bytes EXCEPT ![r.first_position + 1] = IR_TYPE_OCTET]
                      \o <<ROHCv2_PROFILE_IP_LSB>>
            IN [ret |-> counter + 2,
                rohc_pkt |-> hdr \o <<crc_calculate(hdr, 1, CRC_INIT_8)>>,
                payload_offset |-> 0]

\* the Normal packet builder with the payload offset of the IR builder
code_normal_packet_with_offset_0(type, c, data, rohc_pkt_max_len) ==
    LET r == code_cid_values(type, c, rohc_pkt_max_len)
    IN IF r.ret < 1 THEN CodeError
       ELSE [ret |-> r.ret,
             rohc_pkt |-> [r.bytes EXCEPT ![r.first_position + 1] = data[1]],
             payload_offset |-> 0]

rohc_comp_rfc5225_ip_code_normal_packet(type, c, data, rohc_pkt_max_len) ==
    LET r == code_cid_values(type, c, rohc_pkt_max_len)
    IN IF r.ret < 1 THEN CodeError
       ELSE [ret |-> r.ret,
             rohc_pkt |-> [r.bytes EXCEPT ![r.first_position + 1] = data[1]],
             payload_offset |-> 1]

\* rohc_comp_rfc5225_ip_code_packet: the context after the call, the packet
\* type and the result of the builder
rohc_comp_rfc5225_ip_code_packet(type, c, ctxt, data, rohc_pkt_max_len) ==
    IF ctxt.state = "IR"
    THEN [ctxt |-> [ctxt EXCEPT !.ir_count = @ + 1],
          packet_type |-> "IR",
          out |-> rohc_comp_rfc5225_ip_code_IR_packet(type, c, data, rohc_pkt_max_len)]
    ELSE IF ctxt.state = "FO"
    THEN [ctxt |-> [ctxt EXCEPT !.fo_count = @ + 1],
          packet_type |-> "NORMAL",
          out |-> rohc_comp_rfc5225_ip_code_normal_packet(type, c, data, rohc_pkt_max_len)]
    ELSE [ctxt |-> ctxt, packet_type |-> "UNKNOWN", out |-> CodeError]

\* rohc_comp_rfc5225_ip_encode: decide the state, then code the packet
rohc_comp_rfc5225_ip_encode(type, c, ctxt, data, ip_vers, refresh, rohc_pkt_max_len) ==
    rohc_comp_rfc5225_ip_code_packet(type, c,
        rohc_comp_rfc5225_ip_decide_state(ctxt, ip_vers, refresh),
        data, rohc_pkt_max_len)

\* the feedback handler leaving the IR state only once enough IR were sent
feedback_waiting_for_ir_count(ctxt, strict, feedback_type, octet) ==
    IF feedback_type # "FEEDBACK_1"
    THEN [ctxt |-> ctxt, ret |-> FALSE]
    ELSE IF octet # 0 /\ strict
    THEN [ctxt |-> ctxt, ret |-> FALSE]
    ELSE LET c1 == IF ctxt.mode = "U" THEN rohc_comp_change_mode(ctxt, "O") ELSE ctxt
             c2 == IF c1.state = "IR" /\ c1.ir_count >= MAX_IR_COUNT
                   THEN rohc_comp_change_state(c1, "FO") ELSE c1
         IN [ctxt |-> c2, ret |-> TRUE]

\* rohc_comp_rfc5225_ip_feedback without the test of the feedback type
feedback_of_any_type(ctxt, strict, feedback_type, octet) ==
    IF octet # 0 /\ strict
    THEN [ctxt |-> ctxt, ret |-> FALSE]
    ELSE LET c1 == IF ctxt.mode = "U" THEN rohc_comp_change_mode(ctxt, "O") ELSE ctxt
             c2 == IF c1.state = "IR" THEN rohc_comp_change_state(c1, "FO") ELSE c1
         IN [ctxt |-> c2, ret |-> TRUE]

\* rohc_comp_rfc5225_ip_feedback: the context after the call and the
\* value returned
rohc_comp_rfc5225_ip_feedback(ctxt, strict, feedback_type, octet) ==
    IF feedback_type # "FEEDBACK_1"
    THEN [ctxt |-> ctxt, ret |-> FALSE]
    ELSE IF octet # 0 /\ strict
    THEN [ctxt |-> ctxt, ret |-> FALSE]
    ELSE LET c1 == IF ctxt.mode = "U" THEN rohc_comp_change_mode(ctxt, "O") ELSE ctxt
             c2 == IF c1.state = "IR" THEN rohc_comp_change_state(c1, "FO") ELSE c1
         IN [ctxt |-> c2, ret |-> TRUE]

\* the compressor appends the uncompressed packet, from the payload offset
\* on, to the header built by the profile
rohc_compress(hdr, data, payload_offset) ==
    hdr \o SubSeq(data, payload_offset + 1, Len(data))

\* the decompressor's framing of a ROHCv2 IP-only packet: strip the add-CID
\* octet, read the type octet, skip the large CID; an IR carries the whole
\* packet after profile and CRC, a Normal packet carries its first byte in
\* the type octet
rohc_decompress(type, rohc) ==
    LET has_add_cid == type = "SMALL" /\ Len(rohc) >= 1 /\ rohc[1] \div 16 = 14
        first == IF has_add_cid THEN 2 ELSE 1
        cid_len == IF type = "SMALL" THEN 0
                   ELSE IF Len(rohc) > first /\ rohc[first + 1] >= 128 THEN 2 ELSE 1
        next == first + 1 + cid_len
    IN IF Len(rohc) < first THEN <<>>
       ELSE IF rohc[first] \div 2 = 126
            THEN SubSeq(rohc, next + 2, Len(rohc))
            ELSE <<rohc[first]>> \o SubSeq(rohc, next, Len(rohc))

---------------------------------------------------------------------------
(* The RTP compression profile (RFC 3095): packet decisions *)

\* sdvl_can_length_be_encoded
sdvl_can_length_be_encoded(bits) == bits <= MAX_BITS_IN_4_BYTE_SDVL

\* is_ipv4_non_rnd: the IP header is IPv4 with a non-random IP-ID
is_ipv4_non_rnd(flags) == flags.version = "IPV4" /\ ~flags.rnd

\* the counts of the double IP header case: the IPv4 headers with a
\* non-random IP-ID, and those of them with IP-ID bits to transmit
nr_ipv4_non_rnd(gc) ==
    (IF is_ipv4_non_rnd(gc.ip_flags) THEN 1 ELSE 0)
    + (IF is_ipv4_non_rnd(gc.ip2_flags) THEN 1 ELSE 0)

nr_ipv4_non_rnd_with_bits(gc) ==
    (IF is_ipv4_non_rnd(gc.ip_flags) /\ gc.nr_ip_id_bits > 0 THEN 1 ELSE 0)
    + (IF is_ipv4_non_rnd(gc.ip2_flags) /\ gc.nr_ip_id_bits2 > 0 THEN 1 ELSE 0)

\* the FO decision with the single-header threshold of changed dynamic
\* fields one too high
decide_FO_packet_with_3_dynamic_fields(gc, tmp) ==
    IF gc.send_static
    THEN [packet |-> "PACKET_UOR_2_RTP", ir_dyn_count |-> 0]
    ELSE IF gc.ir_dyn_count < MAX_FO_COUNT
    THEN [packet |-> "PACKET_IR_DYN", ir_dyn_count |-> gc.ir_dyn_count + 1]
    ELSE IF gc.nr_of_ip_hdr = 1 /\ gc.send_dynamic > 3
    THEN [packet |-> "PACKET_IR_DYN", ir_dyn_count |-> gc.ir_dyn_count]
    ELSE IF gc.nr_of_ip_hdr > 1 /\ gc.send_dynamic > 4
    THEN [packet |-> "PACKET_IR_DYN", ir_dyn_count |-> gc.ir_dyn_count]
    ELSE IF gc.nr_sn_bits <= 14
    THEN [packet |->
            IF gc.nr_of_ip_hdr = 1
            THEN IF ~is_ipv4_non_rnd(gc.ip_flags) THEN "PACKET_UOR_2_RTP"
                 ELSE IF gc.nr_ip_id_bits > 0 /\ sdvl_can_length_be_encoded(tmp.nr_ts_bits)
                 THEN "PACKET_UOR_2_ID"
                 ELSE "PACKET_UOR_2_TS"
            ELSE IF nr_ipv4_non_rnd(gc) = 0 THEN "PACKET_UOR_2_RTP"
                 ELSE IF nr_ipv4_non_rnd_with_bits(gc) <= 1
                         /\ sdvl_can_length_be_encoded(tmp.nr_ts_bits)
                 THEN "PACKET_UOR_2_ID"
                 ELSE IF nr_ipv4_non_rnd(gc) = 1 THEN "PACKET_UOR_2_TS"
                 ELSE "PACKET_IR_DYN",
          ir_dyn_count |-> gc.ir_dyn_count]
    ELSE [packet |-> "PACKET_IR_DYN", ir_dyn_count |-> gc.ir_dyn_count]

\* c_rtp_decide_FO_packet: the packet chosen and the new ir_dyn_count
c_rtp_decide_FO_packet(gc, tmp) ==
    IF gc.send_static
    THEN [packet |-> "PACKET_UOR_2_RTP", ir_dyn_count |-> 0]
    ELSE IF gc.ir_dyn_count < MAX_FO_COUNT
    THEN [packet |-> "PACKET_IR_DYN", ir_dyn_count |-> gc.ir_dyn_count + 1]
    ELSE IF gc.nr_of_ip_hdr = 1 /\ gc.send_dynamic > 2
    THEN [packet |-> "PACKET_IR_DYN", ir_dyn_count |-> gc.ir_dyn_count]
    ELSE IF gc.nr_of_ip_hdr > 1 /\ gc.send_dynamic > 4
    THEN [packet |-> "PACKET_IR_DYN", ir_dyn_count |-> gc.ir_dyn_count]
    ELSE IF gc.nr_sn_bits <= 14
    THEN [packet |->
            IF gc.nr_of_ip_hdr = 1
            THEN IF ~is_ipv4_non_rnd(gc.ip_flags) THEN "PACKET_UOR_2_RTP"
                 ELSE IF gc.nr_ip_id_bits > 0 /\ sdvl_can_length_be_encoded(tmp.nr_ts_bits)
                 THEN "PACKET_UOR_2_ID"
                 ELSE "PACKET_UOR_2_TS"
            ELSE IF nr_ipv4_non_rnd(gc) = 0 THEN "PACKET_UOR_2_RTP"
                 ELSE IF nr_ipv4_non_rnd_with_bits(gc) <= 1
                         /\ sdvl_can_length_be_encoded(tmp.nr_ts_bits)
                 THEN "PACKET_UOR_2_ID"
                 ELSE IF nr_ipv4_non_rnd(gc) = 1 THEN "PACKET_UOR_2_TS"
                 ELSE "PACKET_IR_DYN",
          ir_dyn_count |-> gc.ir_dyn_count]
    ELSE [packet |-> "PACKET_IR_DYN", ir_dyn_count |-> gc.ir_dyn_count]

\* the SO decision for a single IP header with UO-1-RTP accepting 5 bits of
\* TS only
decide_SO_packet_single_with_5_ts_bits(gc, tmp) ==
    LET non_rnd == is_ipv4_non_rnd(gc.ip_flags)
        nr_sn_bits == gc.nr_sn_bits
        nr_ts_bits == tmp.nr_ts_bits
        nr_ip_id_bits == gc.nr_ip_id_bits
    IN IF ~non_rnd /\ nr_sn_bits <= 4 /\ nr_ts_bits = 0 /\ tmp.m_set = 0
       THEN "PACKET_UO_0"
       ELSE IF ~non_rnd /\ nr_sn_bits <= 4 /\ nr_ts_bits <= 5
       THEN "PACKET_UO_1_RTP"
       ELSE IF ~non_rnd
       THEN "PACKET_UOR_2_RTP"
       ELSE IF nr_sn_bits <= 4 /\ nr_ip_id_bits = 0 /\ nr_ts_bits = 0 /\ tmp.m_set = 0
       THEN "PACKET_UO_0"
       ELSE IF nr_sn_bits <= 4 /\ nr_ip_id_bits = 0 /\ nr_ts_bits <= 5
       THEN "PACKET_UO_1_TS"
       ELSE IF nr_sn_bits <= 4 /\ nr_ip_id_bits <= 5 /\ nr_ts_bits = 0 /\ tmp.m_set = 0
       THEN "PACKET_UO_1_ID"
       ELSE IF nr_ip_id_bits > 0 /\ sdvl_can_length_be_encoded(nr_ts_bits)
       THEN "PACKET_UOR_2_ID"
       ELSE "PACKET_UOR_2_TS"

\* the SO decision for a single IP header with UO-1-ID accepting 6 bits of
\* IP-ID
decide_SO_packet_single_with_6_ip_id_bits(gc, tmp) ==
    LET non_rnd == is_ipv4_non_rnd(gc.ip_flags)
        nr_sn_bits == gc.nr_sn_bits
        nr_ts_bits == tmp.nr_ts_bits
        nr_ip_id_bits == gc.nr_ip_id_bits
    IN IF ~non_rnd /\ nr_sn_bits <= 4 /\ nr_ts_bits = 0 /\ tmp.m_set = 0
       THEN "PACKET_UO_0"
       ELSE IF ~non_rnd /\ nr_sn_bits <= 4 /\ nr_ts_bits <= 6
       THEN "PACKET_UO_1_RTP"
       ELSE IF ~non_rnd
       THEN "PACKET_UOR_2_RTP"
       ELSE IF nr_sn_bits <= 4 /\ nr_ip_id_bits = 0 /\ nr_ts_bits = 0 /\ tmp.m_set = 0
       THEN "PACKET_UO_0"
       ELSE IF nr_sn_bits <= 4 /\ nr_ip_id_bits = 0 /\ nr_ts_bits <= 5
       THEN "PACKET_UO_1_TS"
       ELSE IF nr_sn_bits <= 4 /\ nr_ip_id_bits <= 6 /\ nr_ts_bits = 0 /\ tmp.m_set = 0
       THEN "PACKET_UO_1_ID"
       ELSE IF nr_ip_id_bits > 0 /\ sdvl_can_length_be_encoded(nr_ts_bits)
       THEN "PACKET_UOR_2_ID"
       ELSE "PACKET_UOR_2_TS"

\* c_rtp_decide_SO_packet, single IP header
c_rtp_decide_SO_packet_single(gc, tmp) ==
    LET non_rnd == is_ipv4_non_rnd(gc.ip_flags)
        nr_sn_bits == gc.nr_sn_bits
        nr_ts_bits == tmp.nr_ts_bits
        nr_ip_id_bits == gc.nr_ip_id_bits
    IN IF ~non_rnd /\ nr_sn_bits <= 4 /\ nr_ts_bits = 0 /\ tmp.m_set = 0
       THEN "PACKET_UO_0"
       ELSE IF ~non_rnd /\ nr_sn_bits <= 4 /\ nr_ts_bits <= 6
       THEN "PACKET_UO_1_RTP"
       ELSE IF ~non_rnd
       THEN "PACKET_UOR_2_RTP"
       ELSE IF nr_sn_bits <= 4 /\ nr_ip_id_bits = 0 /\ nr_ts_bits = 0 /\ tmp.m_set = 0
       THEN "PACKET_UO_0"
       ELSE IF nr_sn_bits <= 4 /\ nr_ip_id_bits = 0 /\ nr_ts_bits <= 5
       THEN "PACKET_UO_1_TS"
       ELSE IF nr_sn_bits <= 4 /\ nr_ip_id_bits <= 5 /\ nr_ts_bits = 0 /\ tmp.m_set = 0
       THEN "PACKET_UO_1_ID"
       ELSE IF nr_ip_id_bits > 0 /\ sdvl_can_length_be_encoded(nr_ts_bits)
       THEN "PACKET_UOR_2_ID"
       ELSE "PACKET_UOR_2_TS"

\* c_rtp_decide_SO_packet, double IP headers
c_rtp_decide_SO_packet_double(gc, tmp) ==
    LET nr_sn_bits == gc.nr_sn_bits
        nr_ts_bits == tmp.nr_ts_bits
        non_rnd == nr_ipv4_non_rnd(gc)
        with_bits == nr_ipv4_non_rnd_with_bits(gc)
    IN IF nr_sn_bits <= 4 /\ with_bits = 0 /\ nr_ts_bits = 0 /\ tmp.m_set = 0
       THEN "PACKET_UO_0"
       ELSE IF non_rnd = 0 /\ nr_sn_bits <= 4 /\ nr_ts_bits <= 6
       THEN "PACKET_UO_1_RTP"
       ELSE IF with_bits <= 1 /\ (gc.nr_ip_id_bits <= 5 \/ gc.nr_ip_id_bits2 <= 5)
               /\ nr_sn_bits <= 4 /\ nr_ts_bits = 0 /\ tmp.m_set = 0
       THEN "PACKET_UO_1_ID"
       ELSE IF with_bits = 0 /\ nr_sn_bits <= 4 /\ nr_ts_bits <= 5
       THEN "PACKET_UO_1_TS"
       ELSE IF non_rnd = 0
       THEN "PACKET_UOR_2_RTP"
       ELSE IF with_bits <= 1 /\ sdvl_can_length_be_encoded(nr_ts_bits)
       THEN "PACKET_UOR_2_ID"
       ELSE IF non_rnd = 1
       THEN "PACKET_UOR_2_TS"
       ELSE "PACKET_IR_DYN"

\* c_rtp_decide_SO_packet
c_rtp_decide_SO_packet(gc, tmp) ==
    IF gc.nr_of_ip_hdr = 1
    THEN c_rtp_decide_SO_packet_single(gc, tmp)
    ELSE c_rtp_decide_SO_packet_double(gc, tmp)

---------------------------------------------------------------------------
(* The RTP compression profile: changes of the RTP dynamic fields and the
   extension decision *)

\* whether the use of the UDP checksum differs between packet and context
udp_checksum_flipped(r, p) ==
    (p.check # 0 /\ r.old_udp.check = 0) \/ (p.check = 0 /\ r.old_udp.check # 0)

\* rtp_changed_rtp_dynamic counting a change of the use of the UDP checksum
\* as a changed field
rtp_changed_rtp_dynamic_with_udp_checksum(r, p) ==
    LET pt_counted == p.pt # r.old_rtp.pt \/ r.rtp_pt_change_count < MAX_IR_COUNT
        fields == (IF udp_checksum_flipped(r, p) THEN 1 ELSE 0)
                  + (IF p.cc # r.old_rtp.cc THEN 2 ELSE 0)
                  + (IF p.ssrc # r.old_rtp.ssrc THEN 1 ELSE 0)
                  + (IF pt_counted THEN 1 ELSE 0)
    IN [rtp |-> [r EXCEPT
                   !.udp_checksum_change_count =
                       IF udp_checksum_flipped(r, p) THEN 0 ELSE @,
                   !.rtp_pt_change_count =
                       IF p.pt # r.old_rtp.pt THEN 0 ELSE @,
                   !.tmp.m_set = IF p.m # 0 THEN 1 ELSE 0,
                   !.tmp.rtp_pt_changed =
                       IF pt_counted
                       THEN (IF p.pt # r.old_rtp.pt THEN 1 ELSE @)
                       ELSE 0],
        fields |-> fields]

\* rtp_changed_rtp_dynamic: the RTP context after the call and the number
\* of fields that changed
rtp_changed_rtp_dynamic(r, p) ==
    LET pt_counted == p.pt # r.old_rtp.pt \/ r.rtp_pt_change_count < MAX_IR_COUNT
        fields == (IF p.cc # r.old_rtp.cc THEN 2 ELSE 0)
                  + (IF p.ssrc # r.old_rtp.ssrc THEN 1 ELSE 0)
                  + (IF pt_counted THEN 1 ELSE 0)
    IN [rtp |-> [r EXCEPT
                   !.udp_checksum_change_count =
                       IF udp_checksum_flipped(r, p) THEN 0 ELSE @,
                   !.rtp_pt_change_count =
                       IF p.pt # r.old_rtp.pt THEN 0 ELSE @,
                   !.tmp.m_set = IF p.m # 0 THEN 1 ELSE 0,
                   !.tmp.rtp_pt_changed =
                       IF pt_counted
                       THEN (IF p.pt # r.old_rtp.pt THEN 1 ELSE @)
                       ELSE 0],
        fields |-> fields]

\* change_state: a change of state resets the counters of the state
change_state(gc, new_state) == rohc_comp_change_state(gc, new_state)

\* decide_state, the decision shared by the IP-only, UDP and UDP-Lite
\* profiles: IR on a change of a static field, IR -> FO after MAX_IR_COUNT
\* packets, FO -> SO after MAX_FO_COUNT packets without any change of a
\* dynamic field, SO -> FO on a change of a dynamic field
decide_state(gc) ==
    IF gc.send_static
    THEN change_state(gc, "IR")
    ELSE IF gc.state = "IR"
    THEN (IF gc.ir_count >= MAX_IR_COUNT THEN change_state(gc, "FO") ELSE gc)
    ELSE IF gc.state = "FO"
    THEN (IF gc.send_dynamic = 0 /\ gc.fo_count >= MAX_FO_COUNT
          THEN change_state(gc, "SO")
          ELSE gc)
    ELSE (IF gc.send_dynamic > 0 THEN change_state(gc, "FO") ELSE gc)

\* rtp_decide_state without the return to IR after a change of the use of
\* the UDP checksum
rtp_decide_state_without_udp_checksum(gc, r, is_ts_constant) ==
    IF r.ts_sc.state = "INIT_TS"
    THEN change_state(gc, "IR")
    ELSE IF gc.state = "IR" /\ r.ts_sc.state = "INIT_STRIDE" /\ is_ts_constant
    THEN change_state(gc, "IR")
    ELSE IF r.ts_sc.state = "INIT_STRIDE" /\ gc.state # "IR" /\ is_ts_constant
    THEN change_state(gc, "FO")
    ELSE IF r.tmp.send_rtp_dynamic # 0 /\ gc.state # "IR"
    THEN change_state(gc, "FO")
    ELSE decide_state(gc)

\* rtp_decide_state without the test that keeps a context in IR state while
\* the TS is constant in INIT_STRIDE
rtp_decide_state_without_constant_ts(gc, r, is_ts_constant) ==
    IF r.ts_sc.state = "INIT_TS"
    THEN change_state(gc, "IR")
    ELSE IF r.udp_checksum_change_count < MAX_IR_COUNT
    THEN change_state(gc, "IR")
    ELSE IF r.ts_sc.state = "INIT_STRIDE" /\ gc.state # "IR" /\ is_ts_constant
    THEN change_state(gc, "FO")
    ELSE IF r.tmp.send_rtp_dynamic # 0 /\ gc.state # "IR"
    THEN change_state(gc, "FO")
    ELSE decide_state(gc)

\* rtp_decide_state going back to IR state, not to FO state, when UDP/RTP
\* fields changed
rtp_decide_state_to_IR_on_rtp_dynamic(gc, r, is_ts_constant) ==
    IF r.ts_sc.state = "INIT_TS"
    THEN change_state(gc, "IR")
    ELSE IF gc.state = "IR" /\ r.ts_sc.state = "INIT_STRIDE" /\ is_ts_constant
    THEN change_state(gc, "IR")
    ELSE IF r.udp_checksum_change_count < MAX_IR_COUNT
    THEN change_state(gc, "IR")
    ELSE IF r.ts_sc.state = "INIT_STRIDE" /\ gc.state # "IR" /\ is_ts_constant
    THEN change_state(gc, "FO")
    ELSE IF r.tmp.send_rtp_dynamic # 0 /\ gc.state # "IR"
    THEN change_state(gc, "IR")
    ELSE decide_state(gc)

\* rtp_decide_state leaving the decision to the generic decide_state when
\* UDP/RTP fields changed
rtp_decide_state_without_rtp_dynamic(gc, r, is_ts_constant) ==
    IF r.ts_sc.state = "INIT_TS"
    THEN change_state(gc, "IR")
    ELSE IF gc.state = "IR" /\ r.ts_sc.state = "INIT_STRIDE" /\ is_ts_constant
    THEN change_state(gc, "IR")
    ELSE IF r.udp_checksum_change_count < MAX_IR_COUNT
    THEN change_state(gc, "IR")
    ELSE IF r.ts_sc.state = "INIT_STRIDE" /\ gc.state # "IR" /\ is_ts_constant
    THEN change_state(gc, "FO")
    ELSE decide_state(gc)

\* rtp_decide_state; is_ts_constant is what is_ts_constant(ts_sc) returns
rtp_decide_state(gc, r, is_ts_constant) ==
    IF r.ts_sc.state = "INIT_TS"
    THEN change_state(gc, "IR")
    ELSE IF gc.state = "IR" /\ r.ts_sc.state = "INIT_STRIDE" /\ is_ts_constant
    THEN change_state(gc, "IR")
    ELSE IF r.udp_checksum_change_count < MAX_IR_COUNT
    THEN change_state(gc, "IR")
    ELSE IF r.ts_sc.state = "INIT_STRIDE" /\ gc.state # "IR" /\ is_ts_constant
    THEN change_state(gc, "FO")
    ELSE IF r.tmp.send_rtp_dynamic # 0 /\ gc.state # "IR"
    THEN change_state(gc, "FO")
    ELSE decide_state(gc)

\* rtp_code_dynamic_rtp_part counting every dynamic chain coded in
\* INIT_STRIDE, with or without ts_stride
rtp_code_dynamic_rtp_part_counting_every_chain(r, packet_type, is_ts_constant) ==
    LET rx_byte == ~is_ts_constant
                   /\ (r.ts_sc.state = "INIT_STRIDE"
                       \/ (packet_type = "PACKET_IR" /\ r.ts_sc.state = "SEND_SCALED"))
        tss == r.ts_sc.state # "INIT_TS"
        r1 == [r EXCEPT !.udp_checksum_change_count = @ + 1,
                        !.rtp_pt_change_count = @ + 1]
        r2 == IF r1.ts_sc.state = "INIT_STRIDE"
              THEN [r1 EXCEPT
                      !.ts_sc.nr_init_stride_packets = @ + 1,
                      !.ts_sc.state =
                          IF r1.ts_sc.nr_init_stride_packets + 1 >= ROHC_INIT_TS_STRIDE_MIN
                          THEN "SEND_SCALED"
                          ELSE @]
              ELSE r1
        r3 == IF r2.ts_sc.state = "INIT_TS"
              THEN [r2 EXCEPT !.ts_sc.state = "INIT_STRIDE",
                              !.ts_sc.nr_init_stride_packets = 0]
              ELSE r2
    IN [rtp |-> r3, rx_byte |-> rx_byte]

\* rtp_code_dynamic_rtp_part leaving INIT_TS only when the TS changed
rtp_code_dynamic_rtp_part_waiting_for_ts_change(r, packet_type, is_ts_constant) ==
    LET rx_byte == ~is_ts_constant
                   /\ (r.ts_sc.state = "INIT_STRIDE"
                       \/ (packet_type = "PACKET_IR" /\ r.ts_sc.state = "SEND_SCALED"))
        tss == r.ts_sc.state # "INIT_TS"
        r1 == [r EXCEPT !.udp_checksum_change_count = @ + 1,
                        !.rtp_pt_change_count = @ + 1]
        r2 == IF rx_byte /\ tss /\ r1.ts_sc.state = "INIT_STRIDE"
              THEN [r1 EXCEPT
                      !.ts_sc.nr_init_stride_packets = @ + 1,
                      !.ts_sc.state =
                          IF r1.ts_sc.nr_init_stride_packets + 1 >= ROHC_INIT_TS_STRIDE_MIN
                          THEN "SEND_SCALED"
                          ELSE @]
              ELSE r1
        r3 == IF r2.ts_sc.state = "INIT_TS" /\ ~is_ts_constant
              THEN [r2 EXCEPT !.ts_sc.state = "INIT_STRIDE",
                              !.ts_sc.nr_init_stride_packets = 0]
              ELSE r2
    IN [rtp |-> r3, rx_byte |-> rx_byte]

\* rtp_code_dynamic_rtp_part: the RTP context after the dynamic chain was
\* written, and whether the chain carries ts_stride (rx_byte)
rtp_code_dynamic_rtp_part(r, packet_type, is_ts_constant) ==
    LET rx_byte == ~is_ts_constant
                   /\ (r.ts_sc.state = "INIT_STRIDE"
                       \/ (packet_type = "PACKET_IR" /\ r.ts_sc.state = "SEND_SCALED"))
        tss == r.ts_sc.state # "INIT_TS"
        r1 == [r EXCEPT !.udp_checksum_change_count = @ + 1,
                        !.rtp_pt_change_count = @ + 1]
        r2 == IF rx_byte /\ tss /\ r1.ts_sc.state = "INIT_STRIDE"
              THEN [r1 EXCEPT
                      !.ts_sc.nr_init_stride_packets = @ + 1,
                      !.ts_sc.state =
                          IF r1.ts_sc.nr_init_stride_packets + 1 >= ROHC_INIT_TS_STRIDE_MIN
                          THEN "SEND_SCALED"
                          ELSE @]
              ELSE r1
        r3 == IF r2.ts_sc.state = "INIT_TS"
              THEN [r2 EXCEPT !.ts_sc.state = "INIT_STRIDE",
                              !.ts_sc.nr_init_stride_packets = 0]
              ELSE r2
    IN [rtp |-> r3, rx_byte |-> rx_byte]

\* c_add_ts: a TS that breaks the stride while the scaled TS is sent takes
\* the scaled-TS machine back to INIT_STRIDE, where ts_stride is sent again
c_add_ts(r, stride_violation) ==
    IF r.ts_sc.state = "SEND_SCALED" /\ stride_violation
    THEN [r EXCEPT !.ts_sc.state = "INIT_STRIDE", !.ts_sc.nr_init_stride_packets = 0]
    ELSE r

\* the RTP part of extension 3: ts_stride is transmitted (rx_byte) while the
\* scaled-TS machine is in INIT_STRIDE and the TS is not constant, and the
\* transmission is counted as in the dynamic chain
code_EXT3_rtp(r, is_ts_constant) ==
    LET rx_byte == ~is_ts_constant /\ r.ts_sc.state = "INIT_STRIDE"
    IN [rtp |-> IF rx_byte
                THEN [r EXCEPT
                        !.ts_sc.nr_init_stride_packets = @ + 1,
                        !.ts_sc.state =
                            IF r.ts_sc.nr_init_stride_packets + 1 >= ROHC_INIT_TS_STRIDE_MIN
                            THEN "SEND_SCALED"
                            ELSE @]
                ELSE r,
        rx_byte |-> rx_byte]

\* decide_extension, the decision shared by all IP-based profiles: its
\* result is an input of the model
ExtensionTypes == {"PACKET_NOEXT", "PACKET_EXT_0", "PACKET_EXT_1", "PACKET_EXT_2",
                   "PACKET_EXT_3", "PACKET_EXT_UNKNOWN"}

\* the extension decision forcing Ext-3 only when several RTP dynamic
\* fields changed
decide_extension_on_several_changes(tmp, generic_ext) ==
    IF tmp.send_rtp_dynamic > 1 THEN "PACKET_EXT_3" ELSE generic_ext

\* c_rtp_decide_extension
c_rtp_decide_extension(tmp, generic_ext) ==
    IF tmp.send_rtp_dynamic > 0 THEN "PACKET_EXT_3" ELSE generic_ext

---------------------------------------------------------------------------
(* The operations on an IP-only context *)

NoOp == [op |-> "none", ret |-> 0, packet_type |-> "UNKNOWN", payload_offset |-> -1,
         uncomp |-> <<>>, rohc |-> <<>>, version |-> "IP_UNKNOWN", refresh |-> FALSE]

\* the history of a context: while only IPv4/IPv6 packets were compressed,
\* no feedback was received and no periodic refresh fired (clean), the
\* number of packets emitted and whether a call of encode failed
Dirty == [clean |-> FALSE, emitted |-> 0, failed |-> FALSE]

InitIP ==
    /\ cid_type \in {"SMALL", "LARGE"}
    /\ cid \in IF cid_type = "SMALL" THEN {0, 5} ELSE {5, 200}
    /\ rfc_strict \in BOOLEAN
    /\ context = [mode |-> "U", state |-> "IR", ir_count |-> 0, fo_count |-> 0]
    /\ last = NoOp
    /\ hist = [clean |-> TRUE, emitted |-> 0, failed |-> FALSE]

Encode(data, ip_vers, refresh, rohc_pkt_max_len) ==
    LET r == rohc_comp_rfc5225_ip_encode(cid_type, cid, context, data, ip_vers,
                                         refresh, rohc_pkt_max_len)
        fired == refresh /\ context.mode = "U"
    IN /\ context.ir_count < MaxCount
       /\ context.fo_count < MaxCount
       /\ hist.emitted < MaxPkts
       /\ context' = r.ctxt
       /\ last' = [op |-> "encode", ret |-> r.out.ret, packet_type |-> r.packet_type,
                   payload_offset |-> r.out.payload_offset, uncomp |-> data,
                   rohc |-> IF r.out.ret < 0 THEN <<>>
                            ELSE rohc_compress(r.out.rohc_pkt, data, r.out.payload_offset),
                   version |-> ip_vers, refresh |-> refresh]
       /\ hist' = IF hist.clean /\ ip_vers \in {"IPV4", "IPV6"} /\ ~fired
                  THEN [clean |-> TRUE,
                        emitted |-> IF r.out.ret < 0 THEN hist.emitted ELSE hist.emitted + 1,
                        failed |-> hist.failed \/ r.out.ret < 0]
                  ELSE Dirty
       /\ UNCHANGED <<cid_type, cid, rfc_strict>>

Feedback(feedback_type, octet) ==
    LET r == rohc_comp_rfc5225_ip_feedback(context, rfc_strict, feedback_type, octet)
    IN /\ context' = r.ctxt
       /\ last' = [NoOp EXCEPT !.op = feedback_type, !.ret = IF r.ret THEN 1 ELSE 0,
                               !.payload_offset = octet]
       /\ hist' = Dirty
       /\ UNCHANGED <<cid_type, cid, rfc_strict>>

EncodePacket ==
    \E data \in Packets, refresh \in BOOLEAN, rohc_pkt_max_len \in BufSizes :
        \E ip_vers \in ip_get_version(data) :
            Encode(data, ip_vers, refresh, rohc_pkt_max_len)

ReceiveFeedback ==
    \E feedback_type \in {"FEEDBACK_1", "FEEDBACK_2"}, octet \in {0, 128} :
        Feedback(feedback_type, octet)

\* the RTP profile at rest: a context as c_rtp_create leaves it, no decision
\* taken
IpFlags == {[version |-> "IPV4", rnd |-> FALSE], [version |-> "IPV4", rnd |-> TRUE],
            [version |-> "IPV6", rnd |-> FALSE]}

IdleG == [nr_of_ip_hdr |-> 1, nr_sn_bits |-> 0, nr_ip_id_bits |-> 0,
          nr_ip_id_bits2 |-> 0,
          ip_flags |-> [version |-> "IPV4", rnd |-> FALSE],
          ip2_flags |-> [version |-> "IPV4", rnd |-> FALSE],
          send_static |-> FALSE, send_dynamic |-> 0, ir_dyn_count |-> 0,
          state |-> "IR", ir_count |-> 0, fo_count |-> 0]

IdleTmp == [send_rtp_dynamic |-> -1, nr_ts_bits |-> 0, m_set |-> 0, rtp_pt_changed |-> 0]

IdlePkt == [check |-> 0, ssrc |-> 1, pt |-> 0, cc |-> 0, m |-> 0]

IdleRtp == [udp_checksum_change_count |-> 0, rtp_pt_change_count |-> 0,
            old_udp |-> [check |-> IdlePkt.check],
            old_rtp |-> [ssrc |-> IdlePkt.ssrc, pt |-> IdlePkt.pt, cc |-> IdlePkt.cc],
            tmp |-> IdleTmp,
            ts_sc |-> [state |-> "INIT_TS", nr_init_stride_packets |-> 0]]

\* what happened to an RTP flow since its context was created: whether a
\* change of the TS was seen, how many times ts_stride was transmitted since
\* INIT_STRIDE was entered, and how many packets were compressed in IR state
\* since the use of the UDP checksum flipped in SO state (-1: no such flip;
\* MAX_IR_COUNT + 1: the compressor has left the IR state since)
IdleHist == [ts_changed |-> FALSE, strides |-> 0, since_flip |-> -1]

\* the fields of the RTP context that persist from one packet to the next
PersistentRtp(r) == [udp_checksum_change_count |-> r.udp_checksum_change_count,
                     rtp_pt_change_count |-> r.rtp_pt_change_count,
                     old_udp |-> r.old_udp,
                     old_rtp |-> r.old_rtp]

\* before: the persistent fields of the RTP context when c_rtp_encode was
\* entered, kept until the generic encoder has succeeded or failed
IdleRes == [op |-> "none", packet |-> "PACKET_UNKNOWN", ext |-> "PACKET_EXT_UNKNOWN",
            generic |-> "PACKET_EXT_UNKNOWN", is_ts_constant |-> TRUE,
            rx_byte |-> FALSE, hist |-> IdleHist, before |-> PersistentRtp(IdleRtp)]

InitRTPIdle ==
    /\ g = IdleG
    /\ rtp = IdleRtp
    /\ pkt = IdlePkt
    /\ res = IdleRes

InitIPIdle ==
    /\ cid_type = "SMALL"
    /\ cid = 0
    /\ rfc_strict = FALSE
    /\ context = [mode |-> "U", state |-> "IR", ir_count |-> 0, fo_count |-> 0]
    /\ last = NoOp
    /\ hist = [clean |-> TRUE, emitted |-> 0, failed |-> FALSE]

Init == InitIP /\ InitRTPIdle

Next ==
    \/ EncodePacket /\ UNCHANGED rtpvars
    \/ ReceiveFeedback /\ UNCHANGED rtpvars

Spec == Init /\ [][Next]_vars

---------------------------------------------------------------------------
(* The packet decisions of the RTP profile, applied to drawn inputs *)

\* the generic contexts with one IP header and with two, over the given
\* numbers of bits and change counts
GContexts(Sn, Id, St, Dy, Ic) ==
    {[nr_of_ip_hdr |-> 1, nr_sn_bits |-> sn, nr_ip_id_bits |-> id,
      nr_ip_id_bits2 |-> 0, ip_flags |-> f, ip2_flags |-> IdleG.ip2_flags,
      send_static |-> st, send_dynamic |-> dy, ir_dyn_count |-> ic] :
        sn \in Sn, id \in Id, f \in IpFlags, st \in St, dy \in Dy, ic \in Ic}
    \cup
    {[nr_of_ip_hdr |-> 2, nr_sn_bits |-> sn, nr_ip_id_bits |-> x[1],
      nr_ip_id_bits2 |-> x[2], ip_flags |-> f[1], ip2_flags |-> f[2],
      send_static |-> st, send_dynamic |-> dy, ir_dyn_count |-> ic] :
        sn \in Sn, x \in Id \X Id, f \in IpFlags \X IpFlags,
        st \in St, dy \in Dy, ic \in Ic}

\* numbers of SN, TS and IP-ID bits around the thresholds of the SO decision
SnBitsSO == {4, 5, 14, 15}
TsBitsSO == {0, 5, 6, 7, 29, 30}
IdBitsSO == {0, 5, 6}

InitSO ==
    /\ InitIPIdle
    /\ g \in GContexts(SnBitsSO, IdBitsSO, {FALSE}, {0}, {MAX_FO_COUNT})
    /\ \E ts \in TsBitsSO, m \in {0, 1} :
          rtp = [IdleRtp EXCEPT !.tmp.nr_ts_bits = ts, !.tmp.m_set = m]
    /\ pkt = IdlePkt
    /\ res = IdleRes

\* decide_packet in the SO state: c_rtp_decide_SO_packet is called
DecideSO ==
    /\ res' = [res EXCEPT !.op = "decide_SO",
                          !.packet = c_rtp_decide_SO_packet(g, rtp.tmp)]
    /\ UNCHANGED <<g, rtp, pkt>>

NextSO == DecideSO /\ UNCHANGED ipvars

SpecSO == InitSO /\ [][NextSO]_vars

\* numbers of bits and of changed fields around the thresholds of the FO
\* decision
SnBitsFO == {14, 15}
TsBitsFO == {29, 30}
IdBitsFO == {0, 5}
SendDynamicFO == {2, 3, 4, 5}

InitFO ==
    /\ InitIPIdle
    /\ g \in GContexts(SnBitsFO, IdBitsFO, BOOLEAN, SendDynamicFO, 0 .. MAX_FO_COUNT)
    /\ \E ts \in TsBitsFO : rtp = [IdleRtp EXCEPT !.tmp.nr_ts_bits = ts]
    /\ pkt = IdlePkt
    /\ res = IdleRes

\* decide_packet in the FO state: c_rtp_decide_FO_packet is called
DecideFO ==
    LET d == c_rtp_decide_FO_packet(g, rtp.tmp)
    IN /\ g' = [g EXCEPT !.ir_dyn_count = d.ir_dyn_count]
       /\ res' = [res EXCEPT !.op = "decide_FO", !.packet = d.packet]
       /\ UNCHANGED <<rtp, pkt>>

NextFO == DecideFO /\ UNCHANGED ipvars

SpecFO == InitFO /\ [][NextFO]_vars

---------------------------------------------------------------------------
(* The changes of the RTP dynamic fields and the extension decision,
   applied to drawn RTP contexts and packets *)

\* the UDP/RTP fields of a packet
RtpPackets == [check : {0, 1}, ssrc : {1, 2}, pt : {0, 1}, cc : {0, 1}, m : {0, 1}]

InitExt ==
    /\ InitIPIdle
    /\ g = IdleG
    /\ \E uc \in 0 .. MaxChangeCount, pc \in 0 .. MaxChangeCount,
          check \in {0, 1}, changed \in {0, 1} :
          rtp = [IdleRtp EXCEPT !.udp_checksum_change_count = uc,
                                !.rtp_pt_change_count = pc,
                                !.old_udp.check = check,
                                !.tmp.rtp_pt_changed = changed]
    /\ pkt = IdlePkt
    /\ res = IdleRes

\* c_rtp_encode, its first step: how many UDP/RTP fields changed?
ChangedRtpDynamic(p) ==
    LET c == rtp_changed_rtp_dynamic(rtp, p)
    IN /\ pkt' = p
       /\ rtp' = [c.rtp EXCEPT !.tmp.send_rtp_dynamic = c.fields]
       /\ res' = [IdleRes EXCEPT !.op = "changed"]
       /\ UNCHANGED g

\* the extension of the UO-1 / UOR-2 packet is decided for the packet whose
\* changes were counted
DecideExtension(generic_ext) ==
    /\ res.op = "changed"
    /\ res' = [res EXCEPT !.op = "decide_extension",
                          !.generic = generic_ext,
                          !.ext = c_rtp_decide_extension(rtp.tmp, generic_ext)]
    /\ UNCHANGED <<g, rtp, pkt>>

NextExt ==
    \/ (\E p \in RtpPackets : ChangedRtpDynamic(p)) /\ UNCHANGED ipvars
    \/ (\E generic_ext \in ExtensionTypes : DecideExtension(generic_ext))
          /\ UNCHANGED ipvars

SpecExt == InitExt /\ [][NextExt]_vars

---------------------------------------------------------------------------
(* The compression of an RTP flow: c_rtp_encode and the steps that the
   generic encoder takes through the callbacks of the RTP profile *)

\* the packets of a flow: the SSRC is the one of the context; the use of
\* the UDP checksum changes, or the CSRC list does
RtpFlowPackets == {p \in RtpPackets :
                      p.ssrc = IdlePkt.ssrc /\ p.m = IdlePkt.m /\ p.pt = IdlePkt.pt
                      /\ (p.cc = IdlePkt.cc \/ p.check = IdlePkt.check)}

\* the numbers of SN, TS and IP-ID bits to transmit: none beyond the ones
\* that every packet carries, or more than a UO packet carries
BitsToSend == {[sn |-> 4, ts |-> 0, id |-> 0], [sn |-> 15, ts |-> 30, id |-> 6]}

\* the changes that the generic encoder finds in the IP headers
GenericChanges == {[send_static |-> FALSE, send_dynamic |-> 0],
                   [send_static |-> FALSE, send_dynamic |-> 1],
                   [send_static |-> TRUE, send_dynamic |-> 0]}

\* the counters of the contexts are only compared with MAX_IR_COUNT,
\* MAX_FO_COUNT and ROHC_INIT_TS_STRIDE_MIN: the values above the bound are
\* folded onto the bound
fold(n, bound) == IF n > bound THEN bound ELSE n

InitRtp ==
    /\ InitIPIdle
    /\ InitRTPIdle

\* c_rtp_encode, up to the call of the generic encoder: how many UDP/RTP
\* fields changed? The first packet is the one the context was created
\* with
RtpEncodeBegin(p) ==
    LET c == rtp_changed_rtp_dynamic(rtp, p)
    IN /\ res.op \in {"none", "encoded", "failed"}
       /\ res.op = "none" => p = pkt
       /\ pkt' = p
       /\ rtp' = [c.rtp EXCEPT !.tmp.send_rtp_dynamic = c.fields]
       /\ res' = [IdleRes EXCEPT
                    !.op = "changed",
                    !.before = PersistentRtp(rtp),
                    !.hist = [res.hist EXCEPT
                                !.since_flip =
                                    IF udp_checksum_flipped(rtp, p)
                                    THEN (IF g.state = "SO" THEN 0 ELSE -1)
                                    ELSE @]]
       /\ UNCHANGED g

\* the generic encoder fails before it changes the context: c_rtp_encode
\* returns its error
GenericEncodeFails ==
    /\ res.op = "changed"
    /\ res' = [res EXCEPT !.op = "failed"]
    /\ UNCHANGED <<g, rtp, pkt>>

\* the generic encoder records the changes of the IP headers, calls
\* rtp_decide_state, updates the scaled-TS machine, computes the numbers of
\* bits to send and decides the packet: IR in IR state,
\* c_rtp_decide_FO_packet in FO state, c_rtp_decide_SO_packet in SO state
DecideStateAndPacket(is_ts_constant, changes, bits, stride_violation) ==
    LET g1 == rtp_decide_state([g EXCEPT !.send_static = changes.send_static,
                                         !.send_dynamic = changes.send_dynamic],
                               rtp, is_ts_constant)
        r1 == c_add_ts(rtp, stride_violation)
        r2 == [r1 EXCEPT !.tmp.nr_ts_bits = bits.ts]
        g2 == [g1 EXCEPT !.nr_sn_bits = bits.sn, !.nr_ip_id_bits = bits.id]
        fo == c_rtp_decide_FO_packet(g2, r2.tmp)
    IN /\ res.op = "changed"
       /\ rtp' = r2
       /\ g' = IF g1.state = "IR"
               THEN [g1 EXCEPT !.ir_count = fold(@ + 1, MaxCount)]
               ELSE IF g1.state = "FO"
               THEN [g1 EXCEPT !.fo_count = fold(@ + 1, MaxCount),
                               !.ir_dyn_count = fo.ir_dyn_count]
               ELSE g1
       /\ res' = [res EXCEPT
                    !.op = "decided",
                    !.before = IdleRes.before,
                    !.is_ts_constant = is_ts_constant,
                    !.packet = IF g1.state = "IR" THEN "PACKET_IR"
                               ELSE IF g1.state = "FO" THEN fo.packet
                               ELSE c_rtp_decide_SO_packet(g2, r2.tmp),
                    !.hist.ts_changed = @ \/ ~is_ts_constant,
                    !.hist.strides =
                        IF r1.ts_sc.state # rtp.ts_sc.state THEN 0 ELSE @]
       /\ UNCHANGED pkt

\* the UDP/RTP headers stored in the context after every packet
encode_old_headers_of_every_packet(r, packet_type, p) ==
    [r EXCEPT !.old_udp = [check |-> p.check],
              !.old_rtp = [ssrc |-> p.ssrc, pt |-> p.pt, cc |-> p.cc]]

\* the end of c_rtp_encode: the context is updated with the UDP/RTP headers
\* of an IR or IR-DYN packet
c_rtp_encode_old_headers(r, packet_type, p) ==
    IF packet_type \in {"PACKET_IR", "PACKET_IR_DYN"}
    THEN [r EXCEPT !.old_udp = [check |-> p.check],
                   !.old_rtp = [ssrc |-> p.ssrc, pt |-> p.pt, cc |-> p.cc]]
    ELSE r

\* the generic encoder codes the packet: the dynamic chain of an IR or
\* IR-DYN packet is written by rtp_code_dynamic_rtp_part, the extension of
\* a UOR-2 packet is decided by c_rtp_decide_extension; c_rtp_encode then
\* stores the UDP/RTP headers of an IR or IR-DYN packet in the context
CodePacket(is_ts_constant, generic_ext) ==
    LET chain == res.packet \in {"PACKET_IR", "PACKET_IR_DYN"}
        uor2 == res.packet \in {"PACKET_UOR_2_RTP", "PACKET_UOR_2_ID", "PACKET_UOR_2_TS"}
        ext == IF uor2 THEN c_rtp_decide_extension(rtp.tmp, generic_ext)
               ELSE "PACKET_NOEXT"
        d == IF chain THEN rtp_code_dynamic_rtp_part(rtp, res.packet, is_ts_constant)
             ELSE IF ext = "PACKET_EXT_3" THEN code_EXT3_rtp(rtp, is_ts_constant)
             ELSE [rtp |-> rtp, rx_byte |-> FALSE]
    IN /\ res.op = "decided"
       /\ ~uor2 => generic_ext = "PACKET_NOEXT"
       /\ rtp' = c_rtp_encode_old_headers(
                    [d.rtp EXCEPT
                       !.udp_checksum_change_count = fold(@, MaxChangeCount),
                       !.rtp_pt_change_count = fold(@, MaxChangeCount)],
                    res.packet, pkt)
       /\ res' = [res EXCEPT
                    !.op = "encoded",
                    !.ext = ext,
                    !.rx_byte = d.rx_byte,
                    !.is_ts_constant = is_ts_constant,
                    !.hist.ts_changed = @ \/ ~is_ts_constant,
                    !.hist.strides =
                        IF rtp.ts_sc.state = "INIT_TS" THEN 0
                        ELSE IF d.rx_byte THEN fold(@ + 1, ROHC_INIT_TS_STRIDE_MIN)
                        ELSE @,
                    !.hist.since_flip =
                        IF @ >= 0 /\ @ < MAX_IR_COUNT /\ g.state = "IR" THEN @ + 1
                        ELSE IF @ = MAX_IR_COUNT /\ g.state # "IR" THEN @ + 1
                        ELSE @]
       /\ UNCHANGED <<g, pkt>>

NextRtp ==
    \/ (\E p \in RtpFlowPackets : RtpEncodeBegin(p)) /\ UNCHANGED ipvars
    \/ GenericEncodeFails /\ UNCHANGED ipvars
    \/ (\E is_ts_constant \in BOOLEAN, changes \in GenericChanges,
           bits \in BitsToSend, stride_violation \in BOOLEAN :
           DecideStateAndPacket(is_ts_constant, changes, bits, stride_violation))
       /\ UNCHANGED ipvars
    \/ (\E is_ts_constant \in BOOLEAN, generic_ext \in {"PACKET_NOEXT", "PACKET_EXT_3"} :
           CodePacket(is_ts_constant, generic_ext)) /\ UNCHANGED ipvars

SpecRtp == InitRtp /\ [][NextRtp]_vars

\* a flow whose payload type changes once: the packets differ from the
\* one the context was created with by their payload type only, and the
\* payload type never goes back; no static field of the IP headers
\* changes, the TS follows its stride and every call of c_rtp_encode
\* succeeds
PtFlowPackets == {p \in RtpPackets :
                     p.ssrc = IdlePkt.ssrc /\ p.m = IdlePkt.m /\ p.cc = IdlePkt.cc
                     /\ p.check = IdlePkt.check}

NextPt ==
    \/ (\E p \in PtFlowPackets :
           /\ pkt.pt # IdlePkt.pt => p.pt = pkt.pt
           /\ RtpEncodeBegin(p)) /\ UNCHANGED ipvars
    \/ (\E is_ts_constant \in BOOLEAN, changes \in GenericChanges, bits \in BitsToSend :
           /\ ~changes.send_static
           /\ DecideStateAndPacket(is_ts_constant, changes, bits, FALSE))
       /\ UNCHANGED ipvars
    \/ (\E is_ts_constant \in BOOLEAN, generic_ext \in {"PACKET_NOEXT", "PACKET_EXT_3"} :
           CodePacket(is_ts_constant, generic_ext)) /\ UNCHANGED ipvars

SpecPt == InitRtp /\ [][NextPt]_vars

\* the flow goes on: packets keep arriving and every call of c_rtp_encode
\* runs to its end
SpecPtFair == SpecPt /\ WF_vars(NextPt)

\* rtp_changed_rtp_dynamic on its own: a context that holds the UDP/RTP
\* headers of any packet, with any value of its two change counters and of
\* m_set, and any packet
InitChanged ==
    /\ InitIPIdle
    /\ g = IdleG
    /\ \E old \in RtpPackets, ucc \in 0 .. MaxChangeCount, pcc \in 0 .. MaxChangeCount :
          rtp = [IdleRtp EXCEPT
                   !.udp_checksum_change_count = ucc,
                   !.rtp_pt_change_count = pcc,
                   !.old_udp = [check |-> old.check],
                   !.old_rtp = [ssrc |-> old.ssrc, pt |-> old.pt, cc |-> old.cc],
                   !.tmp.m_set = old.m]
    /\ pkt \in RtpPackets
    /\ res = IdleRes

\* c_rtp_encode calls rtp_changed_rtp_dynamic and stores the number of
\* changed fields in tmp.send_rtp_dynamic
RtpChanged ==
    LET c == rtp_changed_rtp_dynamic(rtp, pkt)
    IN /\ res.op = "none"
       /\ rtp' = [c.rtp EXCEPT !.tmp.send_rtp_dynamic = c.fields]
       /\ res' = [res EXCEPT !.op = "changed", !.before = PersistentRtp(rtp)]
       /\ UNCHANGED <<g, pkt>>

NextChanged == RtpChanged /\ UNCHANGED ipvars

SpecChanged == InitChanged /\ [][NextChanged]_vars

---------------------------------------------------------------------------
(* c_rtp_check_context: does a packet belong to an RTP context? *)

\* the results of c_udp_check_context
UdpChecks == {1, 0, -1}

\* the IP headers of a packet: the protocol of the outer header and, for a
\* tunnel, whether ip_get_inner_packet succeeds
IpHeaders == [proto : {"UDP", "IPIP", "IPV6"}, inner_packet : BOOLEAN]

\* c_rtp_check_context without the comparison of the SSRC
check_context_without_ssrc(r, ip, p, udp_check) ==
    IF udp_check # 1
    THEN udp_check
    ELSE IF ip.proto \in {"IPIP", "IPV6"} /\ ~ip.inner_packet
    THEN -1
    ELSE 1

\* c_rtp_check_context
c_rtp_check_context(r, ip, p, udp_check) ==
    IF udp_check # 1
    THEN udp_check
    ELSE IF ip.proto \in {"IPIP", "IPV6"} /\ ~ip.inner_packet
    THEN -1
    ELSE IF r.old_rtp.ssrc = p.ssrc THEN 1 ELSE 0

\* a context of the flow with SSRC IdlePkt.ssrc, in any state, and a packet
\* to compress
InitCheck ==
    /\ InitIPIdle
    /\ \E state \in {"IR", "FO", "SO"}, ts_state \in {"INIT_STRIDE", "SEND_SCALED"} :
          /\ g = [IdleG EXCEPT !.state = state,
                               !.ir_count = IF state = "IR" THEN 1 ELSE 0]
          /\ rtp = [IdleRtp EXCEPT
                      !.ts_sc.state = ts_state,
                      !.udp_checksum_change_count = MAX_IR_COUNT,
                      !.rtp_pt_change_count = MAX_IR_COUNT]
    /\ pkt \in RtpPackets
    /\ \E ip \in IpHeaders, udp_check \in UdpChecks :
          res = [op |-> "none", ip |-> ip, udp_check |-> udp_check, ret |-> 0,
                 packet |-> "PACKET_UNKNOWN"]

\* the compressor looks for the context of the packet
CheckContext ==
    /\ res.op = "none"
    /\ res' = [res EXCEPT !.op = "checked",
                          !.ret = c_rtp_check_context(rtp, res.ip, pkt, res.udp_check)]
    /\ UNCHANGED <<g, rtp, pkt>>

\* the packet belongs to the context: c_rtp_encode compresses it there
CompressInContext ==
    LET c == rtp_changed_rtp_dynamic(rtp, pkt)
    IN /\ res.op = "checked"
       /\ res.ret = 1
       /\ rtp' = [c.rtp EXCEPT !.tmp.send_rtp_dynamic = c.fields]
       /\ res' = [res EXCEPT !.op = "changed"]
       /\ UNCHANGED <<g, pkt>>

\* the packet does not belong to the context: c_rtp_create creates a new
\* context for it
CreateContext ==
    /\ res.op = "checked"
    /\ res.ret = 0
    /\ g' = IdleG
    /\ rtp' = [IdleRtp EXCEPT
                 !.old_udp = [check |-> pkt.check],
                 !.old_rtp = [ssrc |-> pkt.ssrc, pt |-> pkt.pt, cc |-> pkt.cc]]
    /\ res' = [res EXCEPT !.op = "created"]
    /\ UNCHANGED pkt

\* the check failed: the packet is not compressed
CheckError ==
    /\ res.op = "checked"
    /\ res.ret = -1
    /\ res' = [res EXCEPT !.op = "failed"]
    /\ UNCHANGED <<g, rtp, pkt>>

\* the packet is compressed in the new context: c_rtp_encode, then
\* rtp_decide_state and the decision of the packet
EncodeInNewContext(is_ts_constant, changes, bits) ==
    LET c == rtp_changed_rtp_dynamic(rtp, pkt)
        r1 == [c.rtp EXCEPT !.tmp.send_rtp_dynamic = c.fields,
                            !.tmp.nr_ts_bits = bits.ts]
        g1 == rtp_decide_state([g EXCEPT !.send_static = changes.send_static,
                                         !.send_dynamic = changes.send_dynamic],
                               r1, is_ts_constant)
        g2 == [g1 EXCEPT !.nr_sn_bits = bits.sn, !.nr_ip_id_bits = bits.id]
    IN /\ res.op = "created"
       /\ rtp' = r1
       /\ g' = IF g1.state = "IR" THEN [g1 EXCEPT !.ir_count = @ + 1] ELSE g1
       /\ res' = [res EXCEPT
                    !.op = "decided",
                    !.packet = IF g1.state = "IR" THEN "PACKET_IR"
                               ELSE IF g1.state = "FO"
                               THEN c_rtp_decide_FO_packet(g2, r1.tmp).packet
                               ELSE c_rtp_decide_SO_packet(g2, r1.tmp)]
       /\ UNCHANGED pkt

NextCheck ==
    \/ CheckContext /\ UNCHANGED ipvars
    \/ CompressInContext /\ UNCHANGED ipvars
    \/ CreateContext /\ UNCHANGED ipvars
    \/ CheckError /\ UNCHANGED ipvars
    \/ (\E is_ts_constant \in BOOLEAN, changes \in GenericChanges, bits \in BitsToSend :
           EncodeInNewContext(is_ts_constant, changes, bits)) /\ UNCHANGED ipvars

SpecCheck == InitCheck /\ [][NextCheck]_vars

---------------------------------------------------------------------------
(* The decompressor of the ROHCv2 IP/UDP/RTP profile: detection of the
   packet type *)

\* the discriminators of the co_repair and IR packets
ROHC_PACKET_TYPE_CO_REPAIR == 251
ROHC_PACKET_TYPE_IR == 253

\* the discriminator of the co_common packet
CO_COMMON_DISCRIMINATOR == 250

\* the values of an octet
Octets == 0 .. 255

\* GET_BIT_7: the most significant bit of an octet
GET_BIT_7(octet) == octet \div 128

\* GET_BIT_5_7: the 3 most significant bits of an octet
GET_BIT_5_7(octet) == octet \div 32

\* GET_BIT_0_7: the 8 bits of an octet
GET_BIT_0_7(octet) == octet % 256

\* detect_pkt_type taking the IR type octet that the compressor of the
\* IP-only profile writes
detect_pkt_type_with_IR_type_octet(first_octet) ==
    IF GET_BIT_7(first_octet) = 0 THEN "ROHC_PACKET_PT_0_CRC3"
    ELSE IF GET_BIT_5_7(first_octet) = 4 THEN "ROHC_PACKET_NORTP_PT_0_CRC7"
    ELSE IF GET_BIT_5_7(first_octet) = 5 THEN "ROHC_PACKET_NORTP_PT_1_SEQ_ID"
    ELSE IF GET_BIT_5_7(first_octet) = 6 THEN "ROHC_PACKET_NORTP_PT_2_SEQ_ID"
    ELSE IF GET_BIT_0_7(first_octet) = CO_COMMON_DISCRIMINATOR THEN "ROHC_PACKET_CO_COMMON"
    ELSE IF first_octet = ROHC_PACKET_TYPE_CO_REPAIR THEN "ROHC_PACKET_CO_REPAIR"
    ELSE IF first_octet = IR_TYPE_OCTET THEN "ROHC_PACKET_IR"
    ELSE "ROHC_PACKET_UNKNOWN"

\* decomp_rfc5225_ip_udp_rtp_detect_pkt_type
decomp_rfc5225_ip_udp_rtp_detect_pkt_type(first_octet) ==
    IF GET_BIT_7(first_octet) = 0 THEN "ROHC_PACKET_PT_0_CRC3"
    ELSE IF GET_BIT_5_7(first_octet) = 4 THEN "ROHC_PACKET_NORTP_PT_0_CRC7"
    ELSE IF GET_BIT_5_7(first_octet) = 5 THEN "ROHC_PACKET_NORTP_PT_1_SEQ_ID"
    ELSE IF GET_BIT_5_7(first_octet) = 6 THEN "ROHC_PACKET_NORTP_PT_2_SEQ_ID"
    ELSE IF GET_BIT_0_7(first_octet) = CO_COMMON_DISCRIMINATOR THEN "ROHC_PACKET_CO_COMMON"
    ELSE IF first_octet = ROHC_PACKET_TYPE_CO_REPAIR THEN "ROHC_PACKET_CO_REPAIR"
    ELSE IF first_octet = ROHC_PACKET_TYPE_IR THEN "ROHC_PACKET_IR"
    ELSE "ROHC_PACKET_UNKNOWN"

\* a ROHC packet of at least one octet is given to the decompressor
InitDetect ==
    /\ InitIPIdle
    /\ g = IdleG
    /\ rtp = IdleRtp
    /\ pkt \in [first_octet : Octets]
    /\ res = [op |-> "none", packet_type |-> "ROHC_PACKET_UNKNOWN"]

\* the decompressor detects the type of the packet
DetectPktType ==
    /\ res.op = "none"
    /\ res' = [op |-> "detected",
               packet_type |-> decomp_rfc5225_ip_udp_rtp_detect_pkt_type(pkt.first_octet)]
    /\ UNCHANGED <<g, rtp, pkt>>

NextDetect == DetectPktType /\ UNCHANGED ipvars

SpecDetect == InitDetect /\ [][NextDetect]_vars

---------------------------------------------------------------------------
(* The decompressor of the ROHCv2 IP/UDP/RTP profile: parsing of the IR and
   co_repair packets. A ROHC packet is its length and the fields of the
   parts that its sender laid out; the parser reads a part only after it
   has compared the remaining length with the size of the part *)

\* the maximum number of IP headers
ROHC_MAX_IP_HDRS == 2

\* the reorder ratios: no reordering, and a quarter of the window
ROHC_REORDERING_NONE == 0
ROHC_REORDERING_QUARTER == 1

\* the sizes in octets of the parts of the chains
sizeof_ipv4_static_t == 10
sizeof_ipv6_static_nofl_t == 34
sizeof_ipv6_static_fl_t == 36
sizeof_udp_static_t == 4
sizeof_ipv4_regular_dynamic_noipid_t == 3
sizeof_ipv4_regular_dynamic_ipid_t == 5
sizeof_ipv6_regular_dynamic_t == 2
sizeof_udp_endpoint_dynamic_t == 5
sizeof_co_repair_crc_t == 2

\* what a parser returns for a malformed part
ParseError == [ret |-> -1]

\* what the parsers of a packet or of a chain return for a malformed one,
\* with the extracted bits as they leave them: the bits of the UDP ports
\* are those that the static chain wrote, if it was parsed
ParseFailed(bits) == [status |-> FALSE, bits |-> bits]

\* the bits of one IP header after reset_extr_bits
NoIpBits == [version |-> "NONE", proto |-> 0, proto_nr |-> 0,
             saddr |-> 0, saddr_nr |-> 0, daddr |-> 0, daddr_nr |-> 0,
             flowid |-> 0, flowid_nr |-> 0,
             tos_tc_bits |-> 0, tos_tc_bits_nr |-> 0, df |-> 0, df_nr |-> 0,
             id_behavior |-> "ROHC_IP_ID_BEHAVIOR_SEQ", id_behavior_nr |-> 0,
             id |-> 0, id_bits_nr |-> 0, ttl_hl |-> 0, ttl_hl_nr |-> 0]

\* reset_extr_bits without the list of IP headers of the context
reset_extr_bits_without_context(ctxt) ==
    [ip |-> <<>>,
     ip_nr |-> 0,
     msn |-> 0, msn_nr |-> 0,
     reorder_ratio |-> 0, reorder_ratio_nr |-> 0,
     ctrl_crc |-> [type |-> "ROHC_CRC_TYPE_NONE", bits |-> 0],
     udp_sport |-> ctxt.extr_bits.udp_sport,
     udp_sport_nr |-> ctxt.extr_bits.udp_sport_nr,
     udp_dport |-> ctxt.extr_bits.udp_dport,
     udp_dport_nr |-> ctxt.extr_bits.udp_dport_nr,
     udp_checksum |-> 0, udp_checksum_nr |-> 0]

\* decomp_rfc5225_ip_udp_rtp_reset_extr_bits: no bits, but the versions and
\* the protocols of the IP headers of a context that handled at least one
\* packet; the bits of the UDP ports are not reset: they are what the
\* last parsing left in volat_ctxt->extr_bits
decomp_rfc5225_ip_udp_rtp_reset_extr_bits(ctxt) ==
    [ip |-> IF ctxt.num_recv_packets >= 1
            THEN [i \in 1 .. ctxt.persist.ip_contexts_nr |->
                    [NoIpBits EXCEPT !.version = ctxt.persist.ip_contexts[i].version,
                                     !.proto = ctxt.persist.ip_contexts[i].next_header,
                                     !.proto_nr = 8]]
            ELSE <<>>,
     ip_nr |-> IF ctxt.num_recv_packets >= 1 THEN ctxt.persist.ip_contexts_nr ELSE 0,
     msn |-> 0, msn_nr |-> 0,
     reorder_ratio |-> 0, reorder_ratio_nr |-> 0,
     ctrl_crc |-> [type |-> "ROHC_CRC_TYPE_NONE", bits |-> 0],
     udp_sport |-> ctxt.extr_bits.udp_sport,
     udp_sport_nr |-> ctxt.extr_bits.udp_sport_nr,
     udp_dport |-> ctxt.extr_bits.udp_dport,
     udp_dport_nr |-> ctxt.extr_bits.udp_dport_nr,
     udp_checksum |-> 0, udp_checksum_nr |-> 0]

\* decomp_rfc5225_ip_udp_rtp_parse_static_ip: the static part of one IP
\* header
decomp_rfc5225_ip_udp_rtp_parse_static_ip(hdr, remain_len) ==
    IF remain_len < 1
    THEN ParseError
    ELSE IF hdr.version_flag = 0
    THEN (IF remain_len < sizeof_ipv4_static_t \/ hdr.reserved # 0
          THEN ParseError
          ELSE [ret |-> sizeof_ipv4_static_t,
                is_innermost |-> hdr.innermost_ip = 1,
                ip_bits |-> [NoIpBits EXCEPT !.version = "IPV4",
                                             !.proto = hdr.protocol, !.proto_nr = 8,
                                             !.saddr = hdr.src_addr, !.saddr_nr = 32,
                                             !.daddr = hdr.dst_addr, !.daddr_nr = 32]])
    ELSE IF hdr.discriminator = 0
    THEN (IF \/ remain_len < sizeof_ipv6_static_nofl_t
             \/ hdr.reserved # 0
             \/ hdr.reserved2 # 0
          THEN ParseError
          ELSE [ret |-> sizeof_ipv6_static_nofl_t,
                is_innermost |-> hdr.innermost_ip = 1,
                ip_bits |-> [NoIpBits EXCEPT !.version = "IPV6",
                                             !.flowid = 0, !.flowid_nr = 20,
                                             !.proto = hdr.protocol, !.proto_nr = 8,
                                             !.saddr = hdr.src_addr, !.saddr_nr = 128,
                                             !.daddr = hdr.dst_addr, !.daddr_nr = 128]])
    ELSE (IF remain_len < sizeof_ipv6_static_fl_t \/ hdr.reserved # 0
          THEN ParseError
          ELSE [ret |-> sizeof_ipv6_static_fl_t,
                is_innermost |-> hdr.innermost_ip = 1,
                ip_bits |-> [NoIpBits EXCEPT !.version = "IPV6",
                                             !.flowid = hdr.flow_label, !.flowid_nr = 20,
                                             !.proto = hdr.protocol, !.proto_nr = 8,
                                             !.saddr = hdr.src_addr, !.saddr_nr = 128,
                                             !.daddr = hdr.dst_addr, !.daddr_nr = 128]])

\* a loop over the static parts of the IP headers that stops at the
\* innermost header only
RECURSIVE parse_static_ips_to_innermost(_, _, _, _)
parse_static_ips_to_innermost(p, ip_hdrs_nr, remain_len, ip_bits) ==
    LET ip == decomp_rfc5225_ip_udp_rtp_parse_static_ip(p.ip[ip_hdrs_nr + 1], remain_len)
    IN IF ip.ret < 0
       THEN ParseError
       ELSE IF ~ip.is_innermost /\ ip_hdrs_nr + 1 < Len(p.ip)
       THEN parse_static_ips_to_innermost(p, ip_hdrs_nr + 1, remain_len - ip.ret,
                                          Append(ip_bits, ip.ip_bits))
       ELSE IF ~ip.is_innermost
       THEN ParseError
       ELSE [ret |-> 0, remain_len |-> remain_len - ip.ret,
             ip_bits |-> Append(ip_bits, ip.ip_bits)]

\* the loop of parse_static_chain from the IP header ip_hdrs_nr + 1 on:
\* it stops at the innermost header or after ROHC_MAX_IP_HDRS headers
RECURSIVE parse_static_ips(_, _, _, _)
parse_static_ips(p, ip_hdrs_nr, remain_len, ip_bits) ==
    LET ip == decomp_rfc5225_ip_udp_rtp_parse_static_ip(p.ip[ip_hdrs_nr + 1], remain_len)
    IN IF ip.ret < 0
       THEN ParseError
       ELSE IF ~ip.is_innermost /\ ip_hdrs_nr + 1 < ROHC_MAX_IP_HDRS
       THEN parse_static_ips(p, ip_hdrs_nr + 1, remain_len - ip.ret,
                             Append(ip_bits, ip.ip_bits))
       ELSE IF ~ip.is_innermost
       THEN ParseError
       ELSE [ret |-> 0, remain_len |-> remain_len - ip.ret,
             ip_bits |-> Append(ip_bits, ip.ip_bits)]

\* decomp_rfc5225_ip_udp_rtp_parse_static_udp
decomp_rfc5225_ip_udp_rtp_parse_static_udp(p, remain_len) ==
    IF remain_len < sizeof_udp_static_t
    THEN ParseError
    ELSE [ret |-> sizeof_udp_static_t, udp_sport |-> p.udp_sport, udp_dport |-> p.udp_dport]

\* decomp_rfc5225_ip_udp_rtp_parse_static_chain
decomp_rfc5225_ip_udp_rtp_parse_static_chain(p, remain_len, bits) ==
    LET ips == parse_static_ips(p, 0, remain_len, <<>>)
        udp == decomp_rfc5225_ip_udp_rtp_parse_static_udp(p, ips.remain_len)
    IN IF ips.ret < 0
       THEN ParseFailed(bits)
       ELSE IF udp.ret < 0
       THEN ParseFailed(bits)
       ELSE [status |-> TRUE,
             remain_len |-> ips.remain_len - udp.ret,
             parsed_len |-> remain_len - (ips.remain_len - udp.ret),
             loops |-> Len(ips.ip_bits),
             bits |-> [bits EXCEPT !.ip = ips.ip_bits, !.ip_nr = Len(ips.ip_bits),
                                   !.udp_sport = udp.udp_sport, !.udp_sport_nr = 16,
                                   !.udp_dport = udp.udp_dport, !.udp_dport_nr = 16]]

\* decomp_rfc5225_ip_udp_rtp_parse_dyn_ip: the dynamic part of one IP
\* header, laid out for the version found in the static chain or in the
\* context
decomp_rfc5225_ip_udp_rtp_parse_dyn_ip(hdr, remain_len, ip_bits) ==
    IF ip_bits.version = "IPV4"
    THEN (IF remain_len < sizeof_ipv4_regular_dynamic_noipid_t \/ hdr.dyn_reserved # 0
          THEN ParseError
          ELSE IF hdr.ip_id_behavior # "ROHC_IP_ID_BEHAVIOR_ZERO"
          THEN (IF remain_len < sizeof_ipv4_regular_dynamic_ipid_t
                THEN ParseError
                ELSE [ret |-> sizeof_ipv4_regular_dynamic_ipid_t,
                      ip_bits |-> [ip_bits EXCEPT
                                     !.df = hdr.df, !.df_nr = 1,
                                     !.id_behavior = hdr.ip_id_behavior,
                                     !.id_behavior_nr = 2,
                                     !.tos_tc_bits = hdr.tos_tc, !.tos_tc_bits_nr = 8,
                                     !.ttl_hl = hdr.ttl_hopl, !.ttl_hl_nr = 8,
                                     !.id = hdr.ip_id, !.id_bits_nr = 16]])
          ELSE [ret |-> sizeof_ipv4_regular_dynamic_noipid_t,
                ip_bits |-> [ip_bits EXCEPT
                               !.df = hdr.df, !.df_nr = 1,
                               !.id_behavior = hdr.ip_id_behavior,
                               !.id_behavior_nr = 2,
                               !.tos_tc_bits = hdr.tos_tc, !.tos_tc_bits_nr = 8,
                               !.ttl_hl = hdr.ttl_hopl, !.ttl_hl_nr = 8]])
    ELSE (IF remain_len < sizeof_ipv6_regular_dynamic_t
          THEN ParseError
          ELSE [ret |-> sizeof_ipv6_regular_dynamic_t,
                ip_bits |-> [ip_bits EXCEPT
                               !.tos_tc_bits = hdr.tos_tc, !.tos_tc_bits_nr = 8,
                               !.ttl_hl = hdr.ttl_hopl, !.ttl_hl_nr = 8,
                               !.id_behavior = "ROHC_IP_ID_BEHAVIOR_RAND",
                               !.id_behavior_nr = 2]])

\* the loop of parse_dyn_chain from the IP header ip_hdrs_nr + 1 on
RECURSIVE parse_dyn_ips(_, _, _, _)
parse_dyn_ips(p, ip_hdrs_nr, remain_len, bits) ==
    IF ip_hdrs_nr >= bits.ip_nr
    THEN [ret |-> 0, remain_len |-> remain_len, bits |-> bits]
    ELSE LET ip == decomp_rfc5225_ip_udp_rtp_parse_dyn_ip(p.ip[ip_hdrs_nr + 1], remain_len,
                                                          bits.ip[ip_hdrs_nr + 1])
         IN IF ip.ret < 0
            THEN ParseError
            ELSE parse_dyn_ips(p, ip_hdrs_nr + 1, remain_len - ip.ret,
                               [bits EXCEPT !.ip[ip_hdrs_nr + 1] = ip.ip_bits])

\* decomp_rfc5225_ip_udp_rtp_parse_dyn_udp: the reserved bits of the part
\* are not read
decomp_rfc5225_ip_udp_rtp_parse_dyn_udp(p, remain_len, bits) ==
    IF remain_len < sizeof_udp_endpoint_dynamic_t
    THEN ParseError
    ELSE [ret |-> sizeof_udp_endpoint_dynamic_t,
          bits |-> [bits EXCEPT !.udp_checksum = p.udp_checksum, !.udp_checksum_nr = 16,
                                !.msn = p.msn, !.msn_nr = 16,
                                !.reorder_ratio = p.reorder_ratio,
                                !.reorder_ratio_nr = 2]]

\* decomp_rfc5225_ip_udp_rtp_parse_dyn_chain
decomp_rfc5225_ip_udp_rtp_parse_dyn_chain(p, remain_len, bits) ==
    LET ips == parse_dyn_ips(p, 0, remain_len, bits)
        udp == decomp_rfc5225_ip_udp_rtp_parse_dyn_udp(p, ips.remain_len, ips.bits)
    IN IF ips.ret < 0
       THEN ParseFailed(bits)
       ELSE IF udp.ret < 0
       THEN ParseFailed(bits)
       ELSE [status |-> TRUE, remain_len |-> ips.remain_len - udp.ret, bits |-> udp.bits]

\* what parse_pkt returns before any packet
ParseFailure == [status |-> FALSE]

\* decomp_rfc5225_ip_udp_rtp_parse_ir
decomp_rfc5225_ip_udp_rtp_parse_ir(p, bits) ==
    LET remain_len == p.len - (1 + p.large_cid_len + 1)
        static == decomp_rfc5225_ip_udp_rtp_parse_static_chain(p, remain_len - 1, bits)
        dyn == decomp_rfc5225_ip_udp_rtp_parse_dyn_chain(p, static.remain_len, static.bits)
    IN IF remain_len < 1
       THEN ParseFailed(bits)
       ELSE IF ~static.status
       THEN ParseFailed(bits)
       ELSE IF ~dyn.status
       THEN ParseFailed(static.bits)
       ELSE [status |-> TRUE,
             extr_crc |-> [type |-> "ROHC_CRC_TYPE_NONE", bits |-> p.crc],
             bits |-> dyn.bits,
             rohc_hdr_len |-> p.len - dyn.remain_len]

\* decomp_rfc5225_ip_udp_rtp_parse_co_repair
decomp_rfc5225_ip_udp_rtp_parse_co_repair(p, bits) ==
    LET remain_len == p.len - 1 - p.large_cid_len - sizeof_co_repair_crc_t
        crc_bits == [bits EXCEPT !.ctrl_crc = [type |-> "ROHC_CRC_TYPE_3",
                                               bits |-> p.ctrl_crc]]
        dyn == decomp_rfc5225_ip_udp_rtp_parse_dyn_chain(p, remain_len, crc_bits)
    IN IF p.len < 1 + p.large_cid_len + 2
       THEN ParseFailed(bits)
       ELSE IF p.r1 # 0
       THEN ParseFailed(bits)
       ELSE IF p.r2 # 0
       THEN ParseFailed(bits)
       ELSE IF ~dyn.status
       THEN ParseFailed(bits)
       ELSE [status |-> TRUE,
             extr_crc |-> [type |-> "ROHC_CRC_TYPE_7", bits |-> p.crc],
             bits |-> dyn.bits,
             rohc_hdr_len |-> p.len - dyn.remain_len]

\* parse_pkt parsing a co_common packet as a co_repair packet
parse_pkt_with_co_common(ctxt, p, packet_type) ==
    LET bits == decomp_rfc5225_ip_udp_rtp_reset_extr_bits(ctxt)
    IN IF packet_type = "ROHC_PACKET_IR"
       THEN decomp_rfc5225_ip_udp_rtp_parse_ir(p, bits)
       ELSE IF packet_type \in {"ROHC_PACKET_CO_REPAIR", "ROHC_PACKET_CO_COMMON"}
       THEN decomp_rfc5225_ip_udp_rtp_parse_co_repair(p, bits)
       ELSE ParseFailed(bits)

\* decomp_rfc5225_ip_udp_rtp_parse_pkt: only the IR and co_repair packets
\* are parsed
decomp_rfc5225_ip_udp_rtp_parse_pkt(ctxt, p, packet_type) ==
    LET bits == decomp_rfc5225_ip_udp_rtp_reset_extr_bits(ctxt)
    IN IF packet_type = "ROHC_PACKET_IR"
       THEN decomp_rfc5225_ip_udp_rtp_parse_ir(p, bits)
       ELSE IF packet_type = "ROHC_PACKET_CO_REPAIR"
       THEN decomp_rfc5225_ip_udp_rtp_parse_co_repair(p, bits)
       ELSE ParseFailed(bits)

\* the IP headers that a sender lays out: IPv4 with or without IP-ID, IPv6
\* without or with flow label
IpHdr == [version_flag |-> 0, discriminator |-> 0, innermost_ip |-> 0,
          reserved |-> 0, reserved2 |-> 0, dyn_reserved |-> 0,
          protocol |-> 17, src_addr |-> 10, dst_addr |-> 20, flow_label |-> 0,
          df |-> 1, tos_tc |-> 8,
          ip_id_behavior |-> "ROHC_IP_ID_BEHAVIOR_ZERO", ip_id |-> 0, ttl_hopl |-> 64]

IpHdrKinds == {IpHdr,
               [IpHdr EXCEPT !.ip_id_behavior = "ROHC_IP_ID_BEHAVIOR_SEQ"],
               [IpHdr EXCEPT !.version_flag = 1,
                             !.ip_id_behavior = "ROHC_IP_ID_BEHAVIOR_RAND"],
               [IpHdr EXCEPT !.version_flag = 1, !.discriminator = 1,
                             !.ip_id_behavior = "ROHC_IP_ID_BEHAVIOR_RAND"]}

\* the chains of IP headers: up to ROHC_MAX_IP_HDRS headers of which the
\* last one is marked innermost, or ROHC_MAX_IP_HDRS headers followed by
\* more
IpChains ==
    {<<[h EXCEPT !.innermost_ip = 1]>> : h \in IpHdrKinds}
    \cup {<<h1, [h2 EXCEPT !.innermost_ip = 1]>> : h1 \in IpHdrKinds, h2 \in IpHdrKinds}
    \cup {<<h, h>> : h \in IpHdrKinds}

\* the sizes of the static and dynamic parts of an IP header
IpStaticLen(hdr) ==
    IF hdr.version_flag = 0 THEN sizeof_ipv4_static_t
    ELSE IF hdr.discriminator = 0 THEN sizeof_ipv6_static_nofl_t
    ELSE sizeof_ipv6_static_fl_t

IpDynLen(hdr) ==
    IF hdr.version_flag = 1 THEN sizeof_ipv6_regular_dynamic_t
    ELSE IF hdr.ip_id_behavior = "ROHC_IP_ID_BEHAVIOR_ZERO"
    THEN sizeof_ipv4_regular_dynamic_noipid_t
    ELSE sizeof_ipv4_regular_dynamic_ipid_t

RECURSIVE ChainLen(_, _, _)
ChainLen(ip, i, static) ==
    IF i > Len(ip) THEN 0
    ELSE (IF static THEN IpStaticLen(ip[i]) ELSE IpDynLen(ip[i])) + ChainLen(ip, i + 1, static)

\* the length of the header of a packet that carries all its parts
HeaderLen(p) ==
    IF p.type = "ROHC_PACKET_IR"
    THEN 1 + p.large_cid_len + 1 + 1
         + ChainLen(p.ip, 1, TRUE) + sizeof_udp_static_t
         + ChainLen(p.ip, 1, FALSE) + sizeof_udp_endpoint_dynamic_t
    ELSE 1 + p.large_cid_len + sizeof_co_repair_crc_t
         + ChainLen(p.ip, 1, FALSE) + sizeof_udp_endpoint_dynamic_t

\* a well-formed packet without payload
RohcPacket(type, large_cid_len, ip) ==
    LET p == [type |-> type, large_cid_len |-> large_cid_len, len |-> 0,
              crc |-> 0, r1 |-> 0, r2 |-> 0, ctrl_crc |-> 0, ip |-> ip,
              udp_sport |-> 1234, udp_dport |-> 5678,
              udp_checksum |-> 0, msn |-> 1, reorder_ratio |-> 0, udp_reserved |-> 0]
    IN [p EXCEPT !.len = HeaderLen(p)]

\* the reserved fields of a packet
ReservedFields(p) ==
    {<<"udp_reserved", 0>>}
    \cup {<<"dyn_reserved", i>> : i \in {j \in 1 .. Len(p.ip) : p.ip[j].version_flag = 0}}
    \cup (IF p.type = "ROHC_PACKET_CO_REPAIR"
          THEN {<<"r1", 0>>, <<"r2", 0>>}
          ELSE {<<"reserved", i>> : i \in 1 .. Len(p.ip)}
               \cup {<<"reserved2", i>> :
                       i \in {j \in 1 .. Len(p.ip) :
                                p.ip[j].version_flag = 1 /\ p.ip[j].discriminator = 0}})

\* the packet with a reserved field that is not zero
WithReserved(p, field) ==
    IF field[1] = "none" THEN p
    ELSE IF field[1] = "udp_reserved" THEN [p EXCEPT !.udp_reserved = 1]
    ELSE IF field[1] = "r1" THEN [p EXCEPT !.r1 = 1]
    ELSE IF field[1] = "r2" THEN [p EXCEPT !.r2 = 1]
    ELSE IF field[1] = "dyn_reserved" THEN [p EXCEPT !.ip[field[2]].dyn_reserved = 1]
    ELSE IF field[1] = "reserved" THEN [p EXCEPT !.ip[field[2]].reserved = 1]
    ELSE [p EXCEPT !.ip[field[2]].reserved2 = 1]

\* the shortest packet that the framework gives to the parser: the first
\* octet, the large CID and, for an IR packet, the profile octet
MinLen(p) == IF p.type = "ROHC_PACKET_IR" THEN 1 + p.large_cid_len + 1 ELSE 1

\* the packets of the given types given to the parser: well-formed, or with
\* one reserved field that is not zero, cut anywhere or followed by one
\* octet of payload; a co_repair packet has no more IP headers than a
\* context has
ParsePackets(types) ==
    UNION {UNION {{[WithReserved(p, field) EXCEPT !.len = len] :
                      len \in MinLen(p) .. (HeaderLen(p) + 1)} :
                  field \in ReservedFields(p) \cup {<<"none", 0>>}} :
           p \in {q \in {RohcPacket(type, large_cid_len, ip) :
                           type \in types,
                           large_cid_len \in {0, 1},
                           ip \in IpChains} :
                    q.type = "ROHC_PACKET_CO_REPAIR"
                      => q.ip[Len(q.ip)].innermost_ip = 1}}

\* the version of an IP header
IpVersion(hdr) == IF hdr.version_flag = 0 THEN "IPV4" ELSE "IPV6"

\* an IP context as calloc leaves it
ZeroIpContext == [version |-> "NONE", tos_tc |-> 0, ttl_hopl |-> 0, next_header |-> 0,
                  ip_id_behavior |-> "ROHC_IP_ID_BEHAVIOR_SEQ",
                  df |-> 0, ip_id |-> 0, flow_label |-> 0,
                  src_addr |-> 0, dst_addr |-> 0]

\* the bits of the UDP ports in volat_ctxt->extr_bits, as calloc would
\* leave them
NoUdpStaticBits == [udp_sport |-> 0, udp_sport_nr |-> 0, udp_dport |-> 0, udp_dport_nr |-> 0]

\* the context after decomp_rfc5225_ip_udp_rtp_new_context
NewDecompContext ==
    [num_recv_packets |-> 0,
     state |-> "NC",
     crc_corr |-> [algo |-> "ROHC_DECOMP_CRC_CORR_SN_NONE", counter |-> 0],
     extr_bits |-> NoUdpStaticBits,
     persist |-> [msn_ref |-> 0, ip_id_offset_ref |-> 0,
                  reorder_ratio |-> ROHC_REORDERING_NONE,
                  ip_contexts_nr |-> 0,
                  ip_contexts |-> [i \in 1 .. ROHC_MAX_IP_HDRS |-> ZeroIpContext],
                  udp_sport |-> 0, udp_dport |-> 0, udp_checksum_used |-> FALSE]]

\* a context that handled packets of the flow with the given IP headers
EstablishedDecompContext(ip) ==
    [NewDecompContext EXCEPT
       !.num_recv_packets = 1,
       !.state = "SC",
       !.persist.ip_contexts_nr = Len(ip),
       !.persist.ip_contexts = [i \in 1 .. ROHC_MAX_IP_HDRS |->
                                  IF i <= Len(ip)
                                  THEN [version |-> IpVersion(ip[i]),
                                        tos_tc |-> ip[i].tos_tc,
                                        ttl_hopl |-> ip[i].ttl_hopl,
                                        next_header |-> ip[i].protocol,
                                        ip_id_behavior |-> ip[i].ip_id_behavior,
                                        df |-> IF ip[i].version_flag = 0
                                               THEN ip[i].df ELSE 0,
                                        ip_id |-> ip[i].ip_id,
                                        flow_label |-> ip[i].flow_label,
                                        src_addr |-> ip[i].src_addr,
                                        dst_addr |-> ip[i].dst_addr]
                                  ELSE ZeroIpContext]]

\* the variables of the compressors, unused by the decompressor
InitCompIdle ==
    /\ cid_type = "SMALL"
    /\ cid = 0
    /\ rfc_strict = FALSE
    /\ last = NoOp
    /\ hist = [clean |-> TRUE, emitted |-> 0, failed |-> FALSE]
    /\ g = IdleG
    /\ rtp = IdleRtp

\* an IR packet for a new context, or a co_repair packet for the context of
\* its flow
InitParse ==
    /\ InitCompIdle
    /\ pkt \in ParsePackets({"ROHC_PACKET_IR", "ROHC_PACKET_CO_REPAIR"})
    /\ context = IF pkt.type = "ROHC_PACKET_IR"
                 THEN NewDecompContext
                 ELSE EstablishedDecompContext(pkt.ip)
    /\ res = [op |-> "none", parsed |-> ParseFailure]

\* the decompressor parses the packet
ParsePkt ==
    /\ res.op = "none"
    /\ res' = [op |-> "parsed",
               parsed |-> decomp_rfc5225_ip_udp_rtp_parse_pkt(context, pkt, pkt.type)]
    /\ UNCHANGED <<g, rtp, pkt, cid_type, cid, rfc_strict, context, last, hist>>

NextParse == ParsePkt

SpecParse == InitParse /\ [][NextParse]_vars

\* the static chains given to parse_static_chain: those of the packets
\* above, and chains of three IP headers
StaticChains ==
    IpChains
    \cup {<<h1, h2, [h3 EXCEPT !.innermost_ip = 1]>> :
            h1 \in IpHdrKinds, h2 \in IpHdrKinds, h3 \in IpHdrKinds}

\* the length of the static chain of a packet: the static parts of its IP
\* headers and of its UDP header
StaticChainLen(p) == ChainLen(p.ip, 1, TRUE) + sizeof_udp_static_t

\* an IR packet in a new context
InitStatic ==
    /\ InitCompIdle
    /\ pkt \in {RohcPacket("ROHC_PACKET_IR", 0, ip) : ip \in StaticChains}
    /\ context = NewDecompContext
    /\ res = [op |-> "none", rohc_len |-> 0, static |-> ParseFailure]

\* parse_static_chain is given the rohc_len octets that start with the
\* static chain of the packet
ParseStaticChain(rohc_len) ==
    /\ res.op = "none"
    /\ res' = [op |-> "static", rohc_len |-> rohc_len,
               static |-> decomp_rfc5225_ip_udp_rtp_parse_static_chain(
                              pkt, rohc_len,
                              decomp_rfc5225_ip_udp_rtp_reset_extr_bits(context))]
    /\ UNCHANGED <<g, rtp, pkt, cid_type, cid, rfc_strict, context, last, hist>>

NextStatic == \E rohc_len \in 0 .. (StaticChainLen(pkt) + 1) : ParseStaticChain(rohc_len)

SpecStatic == InitStatic /\ [][NextStatic]_vars

---------------------------------------------------------------------------
(* The decompressor of the ROHCv2 IP/UDP/RTP profile: a packet goes through
   parse_pkt, decode_bits and build_hdrs; the context is updated by
   update_ctxt when all of them succeed. The check of the CRC over the
   uncompressed headers is outside the profile: its result is an input *)

\* the sizes in octets of the uncompressed headers
sizeof_ipv4_hdr == 20
sizeof_ipv6_hdr == 40
sizeof_udphdr == 8

\* the number of packets after which a context no longer counts them
MaxRecv == 2

\* 16-bit arithmetic
uint16(n) == n % 65536

swab16(n) == (n % 256) * 256 + (n \div 256)

\* the decoded values before any decoding
NoDecoded == [msn |-> 0, reorder_ratio |-> 0, udp_sport |-> 0, udp_dport |-> 0,
              udp_checksum |-> 0, udp_checksum_used |-> FALSE,
              ip_nr |-> 0, ip |-> <<>>]

\* what decode_bits returns when decoding fails
DecodeFailure == [status |-> FALSE]

\* the value of a behavior of the IP-ID in rohc_ip_id_behavior_t
rohc_ip_id_behavior(behavior) ==
    CASE behavior = "ROHC_IP_ID_BEHAVIOR_SEQ" -> 0
      [] behavior = "ROHC_IP_ID_BEHAVIOR_SEQ_SWAP" -> 1
      [] behavior = "ROHC_IP_ID_BEHAVIOR_RAND" -> 2
      [] behavior = "ROHC_IP_ID_BEHAVIOR_ZERO" -> 3

\* the polynomial and the initial value of the CRC-3
CRC_POLY_3 == 6
CRC_INIT_3 == 7

\* one entry of the CRC-3 table: eight shifts of the reflected polynomial
RECURSIVE crc_table_entry_3(_, _)
crc_table_entry_3(crc, j) ==
    IF j = 0 THEN crc
    ELSE crc_table_entry_3(IF crc % 2 = 1 THEN Xor(crc \div 2, CRC_POLY_3, 8)
                           ELSE crc \div 2, j - 1)

\* decompressor->crc_table_3
crc_table_3 == [i \in 0 .. 255 |-> crc_table_entry_3(i, 8)]

\* the CRC-3 of the octets of data from index i on, starting from crc
RECURSIVE crc_calculate_3(_, _, _)
crc_calculate_3(data, i, crc) ==
    IF i > Len(data) THEN crc
    ELSE crc_calculate_3(data, i + 1, crc_table_3[xor8[data[i]][crc % 8]])

\* compute_crc_ctrl_fields: the CRC-3 over the reorder ratio, the MSN in
\* network order and the behaviors of the IP-ID, one octet each
compute_crc_ctrl_fields(reorder_ratio, msn, ip_id_behaviors) ==
    crc_calculate_3(<<reorder_ratio, msn \div 256, msn % 256>>
                      \o [k \in 1 .. Len(ip_id_behaviors) |->
                            rohc_ip_id_behavior(ip_id_behaviors[k])],
                    1, CRC_INIT_3)

\* decode_bits_ip_hdr inferring a sequential swapped IP-ID without swapping
\* the bytes of the IP-ID of the context
decode_bits_ip_hdr_without_swab16(persist, ip_bits, ip_ctxt, decoded_msn) ==
    LET ip_id_behavior == IF ip_bits.id_behavior_nr > 0
                          THEN ip_bits.id_behavior
                          ELSE ip_ctxt.ip_id_behavior
        decoded(id) ==
            [status |-> TRUE,
             ip |-> [version |-> ip_bits.version,
                     tos_tc |-> IF ip_bits.tos_tc_bits_nr > 0
                                THEN ip_bits.tos_tc_bits ELSE ip_ctxt.tos_tc,
                     id_behavior |-> ip_id_behavior,
                     id |-> id,
                     ttl |-> IF ip_bits.ttl_hl_nr = 8
                             THEN ip_bits.ttl_hl ELSE ip_ctxt.ttl_hopl,
                     df |-> IF ip_bits.version # "IPV4" THEN 0
                            ELSE IF ip_bits.df_nr > 0 THEN ip_bits.df ELSE ip_ctxt.df,
                     proto |-> IF ip_bits.proto_nr > 0
                               THEN ip_bits.proto ELSE ip_ctxt.next_header,
                     flowid |-> IF ip_bits.version # "IPV6" THEN 0
                                ELSE IF ip_bits.flowid_nr > 0
                                THEN ip_bits.flowid ELSE ip_ctxt.flow_label,
                     saddr |-> IF ip_bits.saddr_nr > 0
                               THEN ip_bits.saddr ELSE ip_ctxt.src_addr,
                     daddr |-> IF ip_bits.daddr_nr > 0
                               THEN ip_bits.daddr ELSE ip_ctxt.dst_addr]]
    IN IF ip_bits.version = "IPV4"
       THEN (IF ip_bits.id_bits_nr = 16
             THEN decoded(ip_bits.id)
             ELSE IF ip_bits.id_bits_nr > 0
             THEN (IF ip_id_behavior \in {"ROHC_IP_ID_BEHAVIOR_RAND",
                                          "ROHC_IP_ID_BEHAVIOR_ZERO"}
                   THEN DecodeFailure
                   ELSE IF ip_id_behavior = "ROHC_IP_ID_BEHAVIOR_SEQ_SWAP"
                   THEN decoded(swab16(uint16(persist.ip_id_offset_ref + decoded_msn)))
                   ELSE decoded(uint16(persist.ip_id_offset_ref + decoded_msn)))
             ELSE IF ip_id_behavior = "ROHC_IP_ID_BEHAVIOR_ZERO"
             THEN decoded(0)
             ELSE IF ip_id_behavior = "ROHC_IP_ID_BEHAVIOR_SEQ"
             THEN decoded(uint16(ip_ctxt.ip_id + decoded_msn - persist.msn_ref))
             ELSE IF ip_id_behavior = "ROHC_IP_ID_BEHAVIOR_SEQ_SWAP"
             THEN decoded(uint16(ip_ctxt.ip_id + decoded_msn - persist.msn_ref))
             ELSE DecodeFailure)
       ELSE IF ip_bits.id_bits_nr > 0
       THEN DecodeFailure
       ELSE decoded(0)

\* decomp_rfc5225_ip_udp_rtp_decode_bits_ip_hdr: the values of one IP
\* header, from the bits of the packet or else from the context
decomp_rfc5225_ip_udp_rtp_decode_bits_ip_hdr(persist, ip_bits, ip_ctxt, decoded_msn) ==
    LET ip_id_behavior == IF ip_bits.id_behavior_nr > 0
                          THEN ip_bits.id_behavior
                          ELSE ip_ctxt.ip_id_behavior
        decoded(id) ==
            [status |-> TRUE,
             ip |-> [version |-> ip_bits.version,
                     tos_tc |-> IF ip_bits.tos_tc_bits_nr > 0
                                THEN ip_bits.tos_tc_bits ELSE ip_ctxt.tos_tc,
                     id_behavior |-> ip_id_behavior,
                     id |-> id,
                     ttl |-> IF ip_bits.ttl_hl_nr = 8
                             THEN ip_bits.ttl_hl ELSE ip_ctxt.ttl_hopl,
                     df |-> IF ip_bits.version # "IPV4" THEN 0
                            ELSE IF ip_bits.df_nr > 0 THEN ip_bits.df ELSE ip_ctxt.df,
                     proto |-> IF ip_bits.proto_nr > 0
                               THEN ip_bits.proto ELSE ip_ctxt.next_header,
                     flowid |-> IF ip_bits.version # "IPV6" THEN 0
                                ELSE IF ip_bits.flowid_nr > 0
                                THEN ip_bits.flowid ELSE ip_ctxt.flow_label,
                     saddr |-> IF ip_bits.saddr_nr > 0
                               THEN ip_bits.saddr ELSE ip_ctxt.src_addr,
                     daddr |-> IF ip_bits.daddr_nr > 0
                               THEN ip_bits.daddr ELSE ip_ctxt.dst_addr]]
    IN IF ip_bits.version = "IPV4"
       THEN (IF ip_bits.id_bits_nr = 16
             THEN decoded(ip_bits.id)
             ELSE IF ip_bits.id_bits_nr > 0
             THEN (IF ip_id_behavior \in {"ROHC_IP_ID_BEHAVIOR_RAND",
                                          "ROHC_IP_ID_BEHAVIOR_ZERO"}
                   THEN DecodeFailure
                   ELSE IF ip_id_behavior = "ROHC_IP_ID_BEHAVIOR_SEQ_SWAP"
                   THEN decoded(swab16(uint16(persist.ip_id_offset_ref + decoded_msn)))
                   ELSE decoded(uint16(persist.ip_id_offset_ref + decoded_msn)))
             ELSE IF ip_id_behavior = "ROHC_IP_ID_BEHAVIOR_ZERO"
             THEN decoded(0)
             ELSE IF ip_id_behavior = "ROHC_IP_ID_BEHAVIOR_SEQ"
             THEN decoded(uint16(ip_ctxt.ip_id + decoded_msn - persist.msn_ref))
             ELSE IF ip_id_behavior = "ROHC_IP_ID_BEHAVIOR_SEQ_SWAP"
             THEN decoded(swab16(uint16(swab16(ip_ctxt.ip_id)
                                        + decoded_msn - persist.msn_ref)))
             ELSE DecodeFailure)
       ELSE IF ip_bits.id_bits_nr > 0
       THEN DecodeFailure
       ELSE decoded(0)

\* decomp_rfc5225_ip_udp_rtp_decode_bits_ip_hdrs from the IP header
\* ip_hdr_nr + 1 on
RECURSIVE decode_bits_ip_hdrs(_, _, _, _, _)
decode_bits_ip_hdrs(persist, bits, decoded_msn, ip_hdr_nr, ip_decoded) ==
    IF ip_hdr_nr >= bits.ip_nr
    THEN [status |-> TRUE, ip |-> ip_decoded]
    ELSE LET ip == decomp_rfc5225_ip_udp_rtp_decode_bits_ip_hdr(
                       persist, bits.ip[ip_hdr_nr + 1],
                       persist.ip_contexts[ip_hdr_nr + 1], decoded_msn)
         IN IF ~ip.status
            THEN DecodeFailure
            ELSE decode_bits_ip_hdrs(persist, bits, decoded_msn, ip_hdr_nr + 1,
                                     Append(ip_decoded, ip.ip))

\* the behaviors of the IP-ID given to the CRC-3, from the IP header
\* ip_hdr_pos + 1 on: those extracted for the headers that are IPv4
\* according to the context
RECURSIVE ctrl_crc_ip_id_behaviors(_, _, _)
ctrl_crc_ip_id_behaviors(persist, bits, ip_hdr_pos) ==
    IF ip_hdr_pos >= bits.ip_nr THEN <<>>
    ELSE (IF persist.ip_contexts[ip_hdr_pos + 1].version = "IPV4"
          THEN <<bits.ip[ip_hdr_pos + 1].id_behavior>>
          ELSE <<>>)
         \o ctrl_crc_ip_id_behaviors(persist, bits, ip_hdr_pos + 1)

\* the behaviors of the IP-ID of all the IP headers, from the IP header
\* ip_hdr_pos + 1 on
RECURSIVE ctrl_crc_all_behaviors(_, _, _)
ctrl_crc_all_behaviors(persist, bits, ip_hdr_pos) ==
    IF ip_hdr_pos >= bits.ip_nr THEN <<>>
    ELSE <<bits.ip[ip_hdr_pos + 1].id_behavior>>
         \o ctrl_crc_all_behaviors(persist, bits, ip_hdr_pos + 1)

\* the decoding of the bits of an IR or co_repair packet, with the
\* behaviors of the IP-ID that the CRC over the control fields covers
decode_bits_with_behaviors(ctxt, bits, ip_id_behaviors) ==
    LET msn == bits.msn
        udp_checksum == IF bits.udp_checksum_nr = 16 THEN bits.udp_checksum ELSE 0
        udp_checksum_used == IF bits.udp_checksum_nr = 16
                             THEN udp_checksum # 0
                             ELSE ctxt.persist.udp_checksum_used
        reorder_ratio == IF bits.reorder_ratio_nr > 0
                         THEN bits.reorder_ratio
                         ELSE ctxt.persist.reorder_ratio
        ips == decode_bits_ip_hdrs(ctxt.persist, bits, msn, 0, <<>>)
    IN IF ~ips.status
       THEN DecodeFailure
       ELSE IF /\ bits.ctrl_crc.type # "ROHC_CRC_TYPE_NONE"
               /\ compute_crc_ctrl_fields(reorder_ratio, msn, ip_id_behaviors)
                    # bits.ctrl_crc.bits
       THEN DecodeFailure
       ELSE [status |-> TRUE,
             decoded |-> [msn |-> msn,
                          reorder_ratio |-> reorder_ratio,
                          udp_sport |-> IF bits.udp_sport_nr = 16
                                        THEN bits.udp_sport
                                        ELSE ctxt.persist.udp_sport,
                          udp_dport |-> IF bits.udp_dport_nr = 16
                                        THEN bits.udp_dport
                                        ELSE ctxt.persist.udp_dport,
                          udp_checksum |-> udp_checksum,
                          udp_checksum_used |-> udp_checksum_used,
                          ip_nr |-> bits.ip_nr, ip |-> ips.ip]]

\* decode_bits with a CRC over the behaviors of the IPv6 headers too
decode_bits_with_ipv6_behaviors(ctxt, bits) ==
    decode_bits_with_behaviors(ctxt, bits, ctrl_crc_all_behaviors(ctxt.persist, bits, 0))

\* decomp_rfc5225_ip_udp_rtp_decode_bits for the IR and co_repair packets,
\* which carry the 16 bits of the MSN
decomp_rfc5225_ip_udp_rtp_decode_bits(ctxt, bits) ==
    decode_bits_with_behaviors(ctxt, bits, ctrl_crc_ip_id_behaviors(ctxt.persist, bits, 0))

\* the length of the uncompressed IP headers
RECURSIVE ip_hdrs_len(_, _)
ip_hdrs_len(decoded, ip_hdr_nr) ==
    IF ip_hdr_nr >= decoded.ip_nr THEN 0
    ELSE (IF decoded.ip[ip_hdr_nr + 1].version = "IPV4"
          THEN sizeof_ipv4_hdr ELSE sizeof_ipv6_hdr)
         + ip_hdrs_len(decoded, ip_hdr_nr + 1)

\* the UDP header before it is built
NoUdpHdr == [source |-> 0, dest |-> 0, check |-> 0]

\* decomp_rfc5225_ip_udp_rtp_build_udp_hdr: the static and dynamic parts
\* of the UDP header
decomp_rfc5225_ip_udp_rtp_build_udp_hdr(decoded) ==
    [source |-> decoded.udp_sport, dest |-> decoded.udp_dport,
     check |-> decoded.udp_checksum]

\* decomp_rfc5225_ip_udp_rtp_build_hdrs: the headers are built in a buffer
\* of avail_len octets; crc_ok is what rohc_decomp_check_uncomp_crc gives
\* for them
decomp_rfc5225_ip_udp_rtp_build_hdrs(extr_crc, decoded, avail_len, crc_ok) ==
    IF avail_len < ip_hdrs_len(decoded, 0)
    THEN "ROHC_STATUS_OUTPUT_TOO_SMALL"
    ELSE IF avail_len - ip_hdrs_len(decoded, 0) < sizeof_udphdr
    THEN "ROHC_STATUS_OUTPUT_TOO_SMALL"
    ELSE IF extr_crc.type # "ROHC_CRC_TYPE_NONE" /\ ~crc_ok
    THEN "ROHC_STATUS_BAD_CRC"
    ELSE "ROHC_STATUS_OK"

\* the persistent context after a packet; swapped tells whether the octets
\* of a sequential swapped IP-ID are swapped for the offset of the IP-ID
update_ctxt_with_ip_id_offset(persist, decoded, swapped) ==
    LET inner == IF decoded.ip_nr > 0 THEN decoded.ip[decoded.ip_nr] ELSE ZeroIpContext
    IN [persist EXCEPT
          !.msn_ref = decoded.msn,
          !.ip_contexts = [i \in 1 .. ROHC_MAX_IP_HDRS |->
                             IF i > decoded.ip_nr
                             THEN @[i]
                             ELSE [version |-> decoded.ip[i].version,
                                   tos_tc |-> decoded.ip[i].tos_tc,
                                   ttl_hopl |-> decoded.ip[i].ttl,
                                   next_header |-> decoded.ip[i].proto,
                                   ip_id_behavior |-> decoded.ip[i].id_behavior,
                                   df |-> IF decoded.ip[i].version = "IPV4"
                                          THEN decoded.ip[i].df
                                          ELSE @[i].df,
                                   ip_id |-> IF decoded.ip[i].version = "IPV4"
                                             THEN decoded.ip[i].id
                                             ELSE @[i].ip_id,
                                   flow_label |-> IF decoded.ip[i].version = "IPV4"
                                                  THEN @[i].flow_label
                                                  ELSE decoded.ip[i].flowid,
                                   src_addr |-> decoded.ip[i].saddr,
                                   dst_addr |-> decoded.ip[i].daddr]],
          !.ip_id_offset_ref =
              IF decoded.ip_nr > 0 /\ inner.version = "IPV4"
              THEN (IF inner.id_behavior = "ROHC_IP_ID_BEHAVIOR_SEQ_SWAP" /\ swapped
                    THEN uint16(swab16(inner.id) - decoded.msn)
                    ELSE uint16(inner.id - decoded.msn))
              ELSE @,
          !.ip_contexts_nr = decoded.ip_nr,
          !.udp_checksum_used = decoded.udp_checksum_used]

\* update_ctxt with an offset of the IP-ID that is never computed on the
\* swapped IP-ID
update_ctxt_without_swab16(persist, decoded) ==
    update_ctxt_with_ip_id_offset(persist, decoded, FALSE)

\* decomp_rfc5225_ip_udp_rtp_update_ctxt
decomp_rfc5225_ip_udp_rtp_update_ctxt(persist, decoded) ==
    update_ctxt_with_ip_id_offset(persist, decoded, TRUE)

\* a repair as the profiles of RFC 3095 attempt it: the packet is decoded
\* again after a correction of the SN
attempt_repair_with_sn_correction(ctxt, pkt_arrival_time, crc_corr, extr_bits) ==
    [repaired |-> TRUE,
     crc_corr |-> [crc_corr EXCEPT !.algo = "ROHC_DECOMP_CRC_CORR_SN_WRAP"],
     extr_bits |-> extr_bits]

\* decomp_rfc5225_ip_udp_rtp_attempt_repair
decomp_rfc5225_ip_udp_rtp_attempt_repair(ctxt, pkt_arrival_time, crc_corr, extr_bits) ==
    [repaired |-> FALSE, crc_corr |-> crc_corr, extr_bits |-> extr_bits]

\* the end of decompress whatever the status of the packet
decompress_end_without_gate(ctxt, status, decoded) ==
    [ctxt EXCEPT !.persist = decomp_rfc5225_ip_udp_rtp_update_ctxt(@, decoded)]

\* the end of decompress: the context is updated for a packet that was
\* parsed, decoded and built, and it then counts one more packet
decompress_end(ctxt, status, decoded) ==
    IF status = "ROHC_STATUS_OK"
    THEN [ctxt EXCEPT !.persist = decomp_rfc5225_ip_udp_rtp_update_ctxt(@, decoded),
                      !.num_recv_packets = @ + 1]
    ELSE ctxt

\* the state of the decompressor after a packet of the given type was
\* decompressed: NC -> SC on the first one, SC -> FC on the first packet
\* that is not an IR packet
decomp_state_after(state, packet_type) ==
    IF state = "NC" THEN "SC"
    ELSE IF packet_type # "ROHC_PACKET_IR" THEN "FC"
    ELSE state

\* the state of the decompressor one level below
decomp_state_below(state) ==
    IF state = "FC" THEN "SC" ELSE "NC"

\* the states of the correction upon CRC failure that a context may be in
CrcCorrStates ==
    {[algo |-> "ROHC_DECOMP_CRC_CORR_SN_NONE", counter |-> 0],
     [algo |-> "ROHC_DECOMP_CRC_CORR_SN_WRAP", counter |-> 1]}

\* the IP headers of the flows given to the decompressor
Ipv4Seq == [IpHdr EXCEPT !.innermost_ip = 1,
                         !.ip_id_behavior = "ROHC_IP_ID_BEHAVIOR_SEQ", !.ip_id = 7]

DecompChains ==
    {<<Ipv4Seq>>,
     <<[Ipv4Seq EXCEPT !.ip_id_behavior = "ROHC_IP_ID_BEHAVIOR_SEQ_SWAP", !.ip_id = 258]>>,
     <<[IpHdr EXCEPT !.innermost_ip = 1, !.version_flag = 1, !.discriminator = 1,
                     !.flow_label = 77,
                     !.ip_id_behavior = "ROHC_IP_ID_BEHAVIOR_RAND"]>>,
     <<[IpHdr EXCEPT !.version_flag = 1, !.protocol = 4,
                     !.src_addr = 30, !.dst_addr = 40,
                     !.ip_id_behavior = "ROHC_IP_ID_BEHAVIOR_RAND"],
       Ipv4Seq>>,
     <<[IpHdr EXCEPT !.protocol = 4, !.src_addr = 30, !.dst_addr = 40, !.df = 0],
       Ipv4Seq>>}

\* the two settings of a flow: its UDP ports, whether it uses the UDP
\* checksum, and its reorder ratio
FlowSettings ==
    {[udp_sport |-> 1234, udp_dport |-> 5678, udp_checksum |-> 0,
      reorder_ratio |-> ROHC_REORDERING_NONE],
     [udp_sport |-> 4321, udp_dport |-> 8765, udp_checksum |-> 9,
      reorder_ratio |-> ROHC_REORDERING_QUARTER]}

\* the values of the CRC over the control fields
CtrlCrcs == 0 .. 7

\* the packets given to the decompressor: complete or, for those with the
\* MSN 1, cut by one octet or with a reserved field of the first octets
\* that is not zero
DecompPackets ==
    LET complete(type) ==
            {[RohcPacket(type, 0, ip) EXCEPT !.msn = msn,
                                              !.udp_sport = f.udp_sport,
                                              !.udp_dport = f.udp_dport,
                                              !.udp_checksum = f.udp_checksum,
                                              !.reorder_ratio = f.reorder_ratio] :
               ip \in DecompChains, msn \in {1, 2}, f \in FlowSettings}
        defects(p) == IF p.msn # 1 THEN {}
                      ELSE IF p.type = "ROHC_PACKET_IR"
                      THEN {[p EXCEPT !.len = @ - 1], [p EXCEPT !.ip[1].reserved = 1]}
                      ELSE {[p EXCEPT !.len = @ - 1], [p EXCEPT !.r1 = 1]}
    IN UNION {{p} \cup defects(p) : p \in complete("ROHC_PACKET_IR")}
       \cup UNION {defects(p)
                   \cup {[p EXCEPT !.ctrl_crc = ctrl_crc] : ctrl_crc \in CtrlCrcs} :
                   p \in complete("ROHC_PACKET_CO_REPAIR")}

\* the packet follows the static part of the context
SameFlow(ctxt, p) ==
    /\ ctxt.persist.ip_contexts_nr = Len(p.ip)
    /\ \A i \in 1 .. Len(p.ip) : ctxt.persist.ip_contexts[i].version = IpVersion(p.ip[i])

\* the sizes of the buffer given for the uncompressed headers
AvailLens == {sizeof_ipv4_hdr, 2 * sizeof_ipv6_hdr + sizeof_udphdr}

\* the UDP ports of the last IR packet for which the context was updated
NoPorts == [udp_sport |-> 0, udp_dport |-> 0]

IdleDecompRes ==
    [op |-> "none", status |-> "ROHC_STATUS_OK", before |-> NewDecompContext.persist,
     parsed |-> ParseFailure, decoded |-> NoDecoded, udp_hdr |-> NoUdpHdr,
     repaired |-> FALSE, pkt_arrival_time |-> 0, ir_ports |-> NoPorts]

\* the bits of the UDP ports that malloc may leave in volat_ctxt->extr_bits
MallocUdpStaticBits ==
    {NoUdpStaticBits,
     [udp_sport |-> 9, udp_sport_nr |-> 16, udp_dport |-> 9, udp_dport_nr |-> 16]}

\* a new context, in any state of the correction upon CRC failure
InitDecomp ==
    /\ InitCompIdle
    /\ context \in {[NewDecompContext EXCEPT !.crc_corr = crc_corr,
                                             !.extr_bits = extr_bits] :
                      crc_corr \in CrcCorrStates, extr_bits \in MallocUdpStaticBits}
    /\ pkt = RohcPacket("ROHC_PACKET_IR", 0, <<IpHdr>>)
    /\ res = IdleDecompRes

\* a packet arrives: an IR packet, or another packet of the flow of a
\* context that holds static information
DecompReceive(p) ==
    /\ res.op \in {"none", "updated", "dropped", "no_context", "downgraded"}
    /\ context.num_recv_packets < MaxRecv
    /\ p.type # "ROHC_PACKET_IR"
         => context.state \in {"SC", "FC"} /\ SameFlow(context, p)
    /\ pkt' = p
    /\ res' = [IdleDecompRes EXCEPT !.op = "received", !.before = context.persist,
                                    !.ir_ports = res.ir_ports]
    /\ UNCHANGED <<g, rtp, cid_type, cid, rfc_strict, context, last, hist>>

\* decomp_rfc5225_ip_udp_rtp_parse_pkt: the bits of the UDP ports stay in
\* volat_ctxt->extr_bits
DecompParse ==
    /\ res.op = "received"
    /\ LET parsed == decomp_rfc5225_ip_udp_rtp_parse_pkt(context, pkt, pkt.type)
       IN /\ res' = [res EXCEPT !.op = IF parsed.status THEN "parsed" ELSE "failed",
                                !.status = IF parsed.status
                                           THEN "ROHC_STATUS_OK"
                                           ELSE "ROHC_STATUS_MALFORMED",
                                !.parsed = parsed]
          /\ context' = [context EXCEPT
                           !.extr_bits = [udp_sport |-> parsed.bits.udp_sport,
                                          udp_sport_nr |-> parsed.bits.udp_sport_nr,
                                          udp_dport |-> parsed.bits.udp_dport,
                                          udp_dport_nr |-> parsed.bits.udp_dport_nr]]
    /\ UNCHANGED <<g, rtp, pkt, cid_type, cid, rfc_strict, last, hist>>

\* decomp_rfc5225_ip_udp_rtp_decode_bits
DecompDecode ==
    /\ res.op = "parsed"
    /\ LET d == decomp_rfc5225_ip_udp_rtp_decode_bits(context, res.parsed.bits)
       IN res' = [res EXCEPT !.op = IF d.status THEN "decoded" ELSE "failed",
                             !.status = IF d.status
                                        THEN "ROHC_STATUS_OK"
                                        ELSE "ROHC_STATUS_ERROR",
                             !.decoded = IF d.status THEN d.decoded ELSE @]
    /\ UNCHANGED <<g, rtp, pkt, cid_type, cid, rfc_strict, context, last, hist>>

\* decomp_rfc5225_ip_udp_rtp_build_hdrs
DecompBuild(avail_len, crc_ok) ==
    /\ res.op = "decoded"
    /\ LET status == decomp_rfc5225_ip_udp_rtp_build_hdrs(res.parsed.extr_crc,
                                                          res.decoded, avail_len, crc_ok)
       IN res' = [res EXCEPT !.op = IF status = "ROHC_STATUS_OK"
                                    THEN "built"
                                    ELSE IF status = "ROHC_STATUS_BAD_CRC"
                                    THEN "bad_crc"
                                    ELSE "failed",
                             !.status = status,
                             !.udp_hdr = IF status = "ROHC_STATUS_OUTPUT_TOO_SMALL"
                                         THEN @
                                         ELSE decomp_rfc5225_ip_udp_rtp_build_udp_hdr(
                                                  res.decoded)]
    /\ UNCHANGED <<g, rtp, pkt, cid_type, cid, rfc_strict, context, last, hist>>

\* decomp_rfc5225_ip_udp_rtp_attempt_repair, upon a CRC failure
DecompAttemptRepair(pkt_arrival_time) ==
    /\ res.op = "bad_crc"
    /\ LET r == decomp_rfc5225_ip_udp_rtp_attempt_repair(context, pkt_arrival_time,
                                                         context.crc_corr,
                                                         res.parsed.bits)
       IN /\ context' = [context EXCEPT !.crc_corr = r.crc_corr]
          /\ res' = [res EXCEPT !.op = IF r.repaired THEN "parsed" ELSE "failed",
                                !.parsed.bits = r.extr_bits,
                                !.repaired = r.repaired,
                                !.pkt_arrival_time = pkt_arrival_time]
    /\ UNCHANGED <<g, rtp, pkt, cid_type, cid, rfc_strict, last, hist>>

\* the end of decompress
DecompEnd ==
    /\ res.op \in {"built", "failed"}
    /\ context' = [decompress_end(context, res.status, res.decoded) EXCEPT
                     !.state = IF res.status = "ROHC_STATUS_OK"
                               THEN decomp_state_after(@, pkt.type)
                               ELSE @]
    /\ res' = [res EXCEPT !.op = IF res.status = "ROHC_STATUS_OK"
                                 THEN "updated"
                                 ELSE "dropped",
                          !.ir_ports = IF /\ res.status = "ROHC_STATUS_OK"
                                          /\ pkt.type = "ROHC_PACKET_IR"
                                       THEN [udp_sport |-> pkt.udp_sport,
                                             udp_dport |-> pkt.udp_dport]
                                       ELSE @]
    /\ UNCHANGED <<g, rtp, pkt, cid_type, cid, rfc_strict, last, hist>>

NextDecomp ==
    \/ \E p \in DecompPackets : DecompReceive(p)
    \/ DecompParse
    \/ DecompDecode
    \/ \E avail_len \in AvailLens, crc_ok \in BOOLEAN : DecompBuild(avail_len, crc_ok)
    \/ \E pkt_arrival_time \in {0, 1} : DecompAttemptRepair(pkt_arrival_time)
    \/ DecompEnd

SpecDecomp == InitDecomp /\ [][NextDecomp]_vars

\* a packet that is not an IR packet arrives for a context without static
\* information: it is dropped before the profile parses it
DecompNoContext(p) ==
    /\ res.op \in {"none", "updated", "dropped", "no_context", "downgraded"}
    /\ p.type # "ROHC_PACKET_IR"
    /\ context.state = "NC"
    /\ pkt' = p
    /\ res' = [IdleDecompRes EXCEPT !.op = "no_context",
                                    !.status = "ROHC_STATUS_NO_CONTEXT",
                                    !.before = context.persist,
                                    !.ir_ports = res.ir_ports]
    /\ UNCHANGED <<g, rtp, cid_type, cid, rfc_strict, context, last, hist>>

\* enough packets of the context failed on their CRC: the context goes
\* down by one state
DecompDowngrade ==
    /\ res.op = "dropped"
    /\ res.status = "ROHC_STATUS_BAD_CRC"
    /\ context.state # "NC"
    /\ context' = [context EXCEPT !.state = decomp_state_below(@)]
    /\ res' = [res EXCEPT !.op = "downgraded"]
    /\ UNCHANGED <<g, rtp, pkt, cid_type, cid, rfc_strict, last, hist>>

\* the types of packets that detect_pkt_type tells apart from the IR and
\* co_repair packets
OtherPacketTypes ==
    {"ROHC_PACKET_PT_0_CRC3", "ROHC_PACKET_NORTP_PT_0_CRC7",
     "ROHC_PACKET_NORTP_PT_1_SEQ_ID", "ROHC_PACKET_NORTP_PT_2_SEQ_ID",
     "ROHC_PACKET_CO_COMMON", "ROHC_PACKET_UNKNOWN"}

\* packets of every type for two flows: IR and co_repair packets, and the
\* octets of the co_repair packets under each of the other types
TypedPackets ==
    LET repair == {[RohcPacket("ROHC_PACKET_CO_REPAIR", 0, ip) EXCEPT
                      !.msn = msn, !.ctrl_crc = ctrl_crc] :
                     ip \in {<<Ipv4Seq>>, <<[IpHdr EXCEPT !.version_flag = 1,
                                                          !.discriminator = 1,
                                                          !.innermost_ip = 1,
                                                          !.flow_label = 77,
                                                          !.ip_id_behavior =
                                                              "ROHC_IP_ID_BEHAVIOR_RAND"]>>},
                     msn \in {1, 2}, ctrl_crc \in CtrlCrcs}
    IN {[q EXCEPT !.type = "ROHC_PACKET_IR", !.ctrl_crc = 0,
                  !.len = HeaderLen([q EXCEPT !.type = "ROHC_PACKET_IR"])] :
          q \in repair}
       \cup repair
       \cup {[q EXCEPT !.type = type] : q \in repair, type \in OtherPacketTypes}

\* the decompressor with packets of every type, contexts that go down to
\* the NC state and packets dropped for a context in NC state
NextTyped ==
    \/ \E p \in TypedPackets : DecompReceive(p)
    \/ \E p \in TypedPackets : DecompNoContext(p)
    \/ DecompParse
    \/ DecompDecode
    \/ \E avail_len \in AvailLens, crc_ok \in BOOLEAN : DecompBuild(avail_len, crc_ok)
    \/ \E pkt_arrival_time \in {0, 1} : DecompAttemptRepair(pkt_arrival_time)
    \/ DecompEnd
    \/ DecompDowngrade

SpecTyped == InitDecomp /\ [][NextTyped]_vars

\* the decoding of the IP-ID on its own: a context with one IP header, any
\* behavior and several IP-ID and reference MSN; the dynamic part of an IP
\* header of the same version, with any behavior; the MSN of the packet
IpIds == {0, 258, 65535}
MsnRefs == {1, 65535}
Msns == {0, 2, 65535}
IpIdBehaviors == {"ROHC_IP_ID_BEHAVIOR_SEQ", "ROHC_IP_ID_BEHAVIOR_SEQ_SWAP",
                  "ROHC_IP_ID_BEHAVIOR_RAND", "ROHC_IP_ID_BEHAVIOR_ZERO"}

InitIpId ==
    /\ InitCompIdle
    /\ \E version_flag \in {0, 1} :
          /\ context \in
                {[NewDecompContext EXCEPT
                    !.num_recv_packets = 1,
                    !.state = "SC",
                    !.persist.msn_ref = msn_ref,
                    !.persist.ip_contexts_nr = 1,
                    !.persist.ip_contexts[1] =
                        [ZeroIpContext EXCEPT
                           !.version = IF version_flag = 0 THEN "IPV4" ELSE "IPV6",
                           !.next_header = 17,
                           !.ip_id_behavior = behavior,
                           !.ip_id = ip_id]] :
                   msn_ref \in MsnRefs, ip_id \in IpIds, behavior \in IpIdBehaviors}
          /\ pkt \in {[IpHdr EXCEPT !.version_flag = version_flag,
                                     !.ip_id_behavior = behavior,
                                     !.ip_id = ip_id] :
                         behavior \in IpIdBehaviors, ip_id \in {7, 513}}
    /\ \E msn \in Msns :
          res = [op |-> "none", msn |-> msn, ret |-> 0, carried |-> FALSE,
                 ip_bits |-> decomp_rfc5225_ip_udp_rtp_reset_extr_bits(context).ip[1],
                 decoded |-> DecodeFailure]

\* the packet carries the dynamic part of the IP header:
\* decomp_rfc5225_ip_udp_rtp_parse_dyn_ip reads it
ParseDynIp(remain_len) ==
    LET r == decomp_rfc5225_ip_udp_rtp_parse_dyn_ip(pkt, remain_len, res.ip_bits)
    IN /\ res.op = "none"
       /\ res' = IF r.ret < 0
                 THEN [res EXCEPT !.op = "malformed", !.ret = r.ret, !.carried = TRUE]
                 ELSE [res EXCEPT !.op = "parsed", !.ret = r.ret, !.carried = TRUE,
                                  !.ip_bits = r.ip_bits]
       /\ UNCHANGED <<g, rtp, pkt, cid_type, cid, rfc_strict, context, last, hist>>

\* the packet carries no dynamic part: no bits for the IP-ID and its
\* behavior, or 16 bits of IP-ID alone
NoDynIp(id_bits_nr) ==
    /\ res.op = "none"
    /\ res' = [res EXCEPT !.op = "parsed",
                          !.ip_bits.id = IF id_bits_nr = 0 THEN 0 ELSE pkt.ip_id,
                          !.ip_bits.id_bits_nr = id_bits_nr]
    /\ UNCHANGED <<g, rtp, pkt, cid_type, cid, rfc_strict, context, last, hist>>

\* decomp_rfc5225_ip_udp_rtp_decode_bits_ip_hdr decodes the bits
DecodeIpHdr ==
    LET d == decomp_rfc5225_ip_udp_rtp_decode_bits_ip_hdr(
                 context.persist, res.ip_bits, context.persist.ip_contexts[1], res.msn)
    IN /\ res.op = "parsed"
       /\ res' = [res EXCEPT !.op = IF d.status THEN "decoded" ELSE "failed",
                             !.decoded = d]
       /\ UNCHANGED <<g, rtp, pkt, cid_type, cid, rfc_strict, context, last, hist>>

NextIpId ==
    \/ \E remain_len \in {sizeof_ipv6_regular_dynamic_t - 1,
                           sizeof_ipv4_regular_dynamic_noipid_t,
                           sizeof_ipv4_regular_dynamic_ipid_t} : ParseDynIp(remain_len)
    \/ \E id_bits_nr \in {0, 16} : NoDynIp(id_bits_nr)
    \/ DecodeIpHdr

SpecIpId == InitIpId /\ [][NextIpId]_vars

---------------------------------------------------------------------------
(* Properties of the ROHCv2 IP-only profile *)

\* the position of the type octet in a ROHC packet of the context
TypeOctetPosition == IF cid_type = "SMALL" /\ cid > 0 THEN 2 ELSE 1

Emitted == last.op = "encode" /\ last.ret > 0

CollidesWithRohcTypes(op) ==
    op.uncomp[1] \div 8 = 31 \/ op.version \notin {"IPV4", "IPV6"}

\* C2: whatever encodes and feedbacks came before, a packet whose first byte
\* is 0b11111xxx, or whose IP version is neither 4 nor 6, is never sent as a
\* Normal packet: the context is forced to the IR state and an IR is built
C2_NoNormalForCollidingPacket ==
    (last.op = "encode" /\ CollidesWithRohcTypes(last)) =>
        /\ last.packet_type = "IR"
        /\ context.state = "IR"

\* a context that a feedback had moved to O-mode emitted an IR for a packet
\* starting with 0b11111xxx
C2_Witness ==
    /\ Emitted
    /\ last.uncomp[1] \div 8 = 31
    /\ context.mode = "O"
    /\ last.packet_type = "IR"

\* C3: for a new context fed only IPv4/IPv6 packets, without feedback and
\* without periodic refresh, the first MAX_IR_COUNT packets emitted are IR
\* packets and every later one is a Normal packet
C3_FirstPacketsAreIR ==
    (hist.clean /\ Emitted) =>
        /\ hist.emitted <= MAX_IR_COUNT => last.packet_type = "IR"
        /\ hist.emitted > MAX_IR_COUNT => last.packet_type = "NORMAL"

\* the same, for the contexts none of whose calls of encode failed
C3_FirstPacketsAreIRWithoutFailure ==
    (hist.clean /\ ~hist.failed /\ Emitted) =>
        /\ hist.emitted <= MAX_IR_COUNT => last.packet_type = "IR"
        /\ hist.emitted > MAX_IR_COUNT => last.packet_type = "NORMAL"

\* what a positive acknowledgement does to a context
Acknowledged ==
    /\ context'.mode = (IF context.mode = "U" THEN "O" ELSE context.mode)
    /\ context'.state = (IF context.state = "IR" THEN "FO" ELSE context.state)
    /\ last'.ret = 1

\* C4 as stated: every FEEDBACK-1 switches a U-mode context to O-mode and
\* an IR-state context to FO, keeps O-mode and FO, and returns true
C4_Feedback1AlwaysAcknowledges ==
    [][last'.op = "FEEDBACK_1" => Acknowledged]_vars

\* C4, amended: a FEEDBACK-1 whose profile-specific octet is zero, or any
\* FEEDBACK-1 in a build without ROHC_RFC_STRICT_DECOMPRESSOR, switches a
\* U-mode context to O-mode and an IR-state context to FO whatever its
\* ir_count, keeps O-mode and FO, and returns true; in a strict build a
\* FEEDBACK-1 with a non-zero octet returns false and changes nothing
C4_Feedback1Acknowledges ==
    [][last'.op = "FEEDBACK_1" =>
         IF last'.payload_offset = 0 \/ ~rfc_strict
         THEN Acknowledged
         ELSE context' = context /\ last'.ret = 0]_vars

\* a FEEDBACK-1 moved a context from IR to FO before ir_count reached
\* MAX_IR_COUNT (the counters are those of a state just entered)
C4_Witness ==
    /\ last.op = "FEEDBACK_1"
    /\ last.ret = 1
    /\ context.mode = "O"
    /\ context.state = "FO"
    /\ context.fo_count = 0

\* C5: once a FEEDBACK-1 has moved the context to O-mode, the context stays
\* in O-mode and no encode of an IPv4/IPv6 packet takes it back from FO to
\* IR, even when the refresh timeout is reached
C5_NoRefreshInOMode ==
    [][context.mode = "O" =>
         /\ context'.mode = "O"
         /\ (context.state = "FO" /\ last'.op = "encode"
                /\ last'.version \in {"IPV4", "IPV6"}) => context'.state = "FO"]_vars

\* an O-mode context emitted a Normal packet although the refresh timeout
\* was reached
C5_Witness ==
    /\ Emitted
    /\ context.mode = "O"
    /\ last.refresh
    /\ last.packet_type = "NORMAL"
    /\ context.fo_count >= 2

\* C6: a call of encode that fails because the output buffer is too small
\* leaves the state, ir_count and fo_count of the context as they were
C6_FailedEncodeLeavesContext ==
    [][(last'.op = "encode" /\ last'.ret < 0) =>
         /\ context'.state = context.state
         /\ context'.ir_count = context.ir_count
         /\ context'.fo_count = context.fo_count]_vars

---------------------------------------------------------------------------
(* The packet decisions of the RTP profile *)

\* the SO decision was taken for a single IP header
DecidedSOSingle == res.op = "decide_SO" /\ g.nr_of_ip_hdr = 1

\* C7: in SO state with a single IP header that is not IPv4 with a
\* non-random IP-ID, the packet is UO-0 iff nr_sn_bits <= 4, nr_ts_bits = 0
\* and M = 0; otherwise UO-1-RTP iff nr_sn_bits <= 4 and nr_ts_bits <= 6;
\* otherwise UOR-2-RTP
C7_SOSingleNotIPv4NonRnd ==
    (DecidedSOSingle /\ ~is_ipv4_non_rnd(g.ip_flags)) =>
        LET uo_0 == g.nr_sn_bits <= 4 /\ rtp.tmp.nr_ts_bits = 0 /\ rtp.tmp.m_set = 0
            uo_1 == g.nr_sn_bits <= 4 /\ rtp.tmp.nr_ts_bits <= 6
        IN /\ res.packet = "PACKET_UO_0" <=> uo_0
           /\ res.packet = "PACKET_UO_1_RTP" <=> (~uo_0 /\ uo_1)
           /\ res.packet = "PACKET_UOR_2_RTP" <=> (~uo_0 /\ ~uo_1)

\* an IPv6 header with 4 SN bits and 6 TS bits: UO-1-RTP at its TS limit
C7_Witness ==
    /\ DecidedSOSingle
    /\ g.ip_flags.version = "IPV6"
    /\ g.nr_sn_bits = 4
    /\ rtp.tmp.nr_ts_bits = 6
    /\ res.packet = "PACKET_UO_1_RTP"

\* C8: in SO state with a single IPv4 header with a non-random IP-ID, the
\* packet is the first that fits of UO-0 (nr_sn <= 4, nr_ip_id = 0,
\* nr_ts = 0, M = 0), UO-1-TS (nr_sn <= 4, nr_ip_id = 0, nr_ts <= 5),
\* UO-1-ID (nr_sn <= 4, nr_ip_id <= 5, nr_ts = 0, M = 0), UOR-2-ID
\* (nr_ip_id > 0 and the TS bits can be SDVL-encoded), else UOR-2-TS
C8_SOSingleIPv4NonRnd ==
    (DecidedSOSingle /\ is_ipv4_non_rnd(g.ip_flags)) =>
        LET sn == g.nr_sn_bits
            id == g.nr_ip_id_bits
            ts == rtp.tmp.nr_ts_bits
            m  == rtp.tmp.m_set
        IN res.packet =
             CASE sn <= 4 /\ id = 0 /\ ts = 0 /\ m = 0 -> "PACKET_UO_0"
               [] ~(sn <= 4 /\ id = 0 /\ ts = 0 /\ m = 0)
                  /\ sn <= 4 /\ id = 0 /\ ts <= 5 -> "PACKET_UO_1_TS"
               [] ~(sn <= 4 /\ id = 0 /\ ts <= 5)
                  /\ sn <= 4 /\ id <= 5 /\ ts = 0 /\ m = 0 -> "PACKET_UO_1_ID"
               [] ~(sn <= 4 /\ id = 0 /\ ts <= 5)
                  /\ ~(sn <= 4 /\ id <= 5 /\ ts = 0 /\ m = 0)
                  /\ id > 0 /\ ts <= 29 -> "PACKET_UOR_2_ID"
               [] OTHER -> "PACKET_UOR_2_TS"

\* an IPv4 header with a sequential IP-ID, 4 SN bits, 5 IP-ID bits, no TS
\* bit and M unset: UO-1-ID at its IP-ID limit
C8_Witness ==
    /\ DecidedSOSingle
    /\ is_ipv4_non_rnd(g.ip_flags)
    /\ g.nr_sn_bits = 4
    /\ g.nr_ip_id_bits = 5
    /\ rtp.tmp.nr_ts_bits = 0
    /\ rtp.tmp.m_set = 0
    /\ res.packet = "PACKET_UO_1_ID"

\* more dynamic fields changed than the FO state accepts in a UOR-2 packet
TooManyDynamicFields ==
    \/ g.nr_of_ip_hdr = 1 /\ g.send_dynamic > 2
    \/ g.nr_of_ip_hdr > 1 /\ g.send_dynamic > 4

---------------------------------------------------------------------------
(* The extension decision of the RTP profile *)

\* the SSRC, the PT or the CC of the packet differs from the context's
RtpFieldChanged ==
    \/ pkt.ssrc # rtp.old_rtp.ssrc
    \/ pkt.pt # rtp.old_rtp.pt
    \/ pkt.cc # rtp.old_rtp.cc

\* C10 as stated: the extension is Ext-3 when the SSRC, the PT or the CC
\* changed in the packet being compressed, and the generic decision
\* otherwise
C10_Ext3IffRtpFieldChanged ==
    res.op = "decide_extension" =>
        res.ext = (IF RtpFieldChanged THEN "PACKET_EXT_3" ELSE res.generic)

\* C10, amended: the extension is Ext-3 when the SSRC, the PT or the CC of
\* the packet differs from the context's, and also when none differs but
\* fewer than MAX_IR_COUNT dynamic chains were sent since the context was
\* created or since the PT last changed; otherwise it is the generic
\* decision
C10_Ext3IffRtpDynamicCounted ==
    res.op = "decide_extension" =>
        res.ext = (IF RtpFieldChanged \/ rtp.rtp_pt_change_count < MAX_IR_COUNT
                   THEN "PACKET_EXT_3"
                   ELSE res.generic)

\* only the CC changed and the generic decision was no extension: Ext-3
C10_Witness ==
    /\ res.op = "decide_extension"
    /\ pkt.cc # rtp.old_rtp.cc
    /\ pkt.pt = rtp.old_rtp.pt
    /\ pkt.ssrc = rtp.old_rtp.ssrc
    /\ rtp.rtp_pt_change_count >= MAX_IR_COUNT
    /\ res.generic = "PACKET_NOEXT"
    /\ res.ext = "PACKET_EXT_3"


\* the packet is coded with a dynamic chain
DynamicChainCoded == res.packet \in {"PACKET_IR", "PACKET_IR_DYN"} /\ res'.op = "encoded"

\* the flow is steady: the scaled TS is sent, and no IP or RTP field changed
SteadyFlow ==
    /\ rtp.ts_sc.state = "SEND_SCALED"
    /\ rtp.tmp.send_rtp_dynamic = 0
    /\ ~g'.send_static

ConstantTsWithoutStride ==
    /\ res'.op = "decided"
    /\ res'.is_ts_constant
    /\ rtp.ts_sc.state \in {"INIT_TS", "INIT_STRIDE"}

\* C12 as stated: while the TS is constant and the stride is not
\* established, rtp_decide_state leaves the context in IR state and never
\* moves it to FO or SO
C12_ConstantTsRemainsInIR ==
    [][ConstantTsWithoutStride => g'.state = "IR"]_vars

\* C12, amended: while the TS is constant and the stride is not
\* established, rtp_decide_state keeps a context of the IR state in IR state
\* and never moves a context to SO; a context of the FO or SO state is moved
\* to IR in INIT_TS or after a change of the UDP checksum, and to FO
\* otherwise
C12_ConstantTsInIRRemainsInIR ==
    [][ConstantTsWithoutStride
         => IF \/ g.state = "IR"
               \/ rtp.ts_sc.state = "INIT_TS"
               \/ rtp.udp_checksum_change_count < MAX_IR_COUNT
            THEN g'.state = "IR"
            ELSE g'.state = "FO"]_vars

\* the TS is constant in INIT_STRIDE and the context is still in IR state
\* after more than MAX_IR_COUNT packets, without a change of the UDP
\* checksum or of a static field
C12_Witness ==
    /\ res.op = "decided"
    /\ res.is_ts_constant
    /\ rtp.ts_sc.state = "INIT_STRIDE"
    /\ g.state = "IR"
    /\ g.ir_count > MAX_IR_COUNT
    /\ rtp.udp_checksum_change_count >= MAX_IR_COUNT
    /\ ~g.send_static

\* C13: the scaled-TS machine is in SEND_SCALED only once ts_stride was
\* transmitted ROHC_INIT_TS_STRIDE_MIN times since INIT_STRIDE was entered,
\* and in INIT_STRIDE as long as it was transmitted fewer times; the move
\* from INIT_STRIDE to SEND_SCALED is made by the packet that transmits
\* ts_stride for the ROHC_INIT_TS_STRIDE_MIN-th time; a dynamic chain coded
\* in INIT_STRIDE transmits ts_stride unless the TS is constant, and a
\* packet without ts_stride leaves the scaled-TS machine as it is
C13_SendScaledAfterStrideMin ==
    [][/\ rtp'.ts_sc.state = "SEND_SCALED"
            => res'.hist.strides = ROHC_INIT_TS_STRIDE_MIN
       /\ rtp'.ts_sc.state = "INIT_STRIDE"
            => (/\ res'.hist.strides < ROHC_INIT_TS_STRIDE_MIN
                /\ rtp'.ts_sc.nr_init_stride_packets = res'.hist.strides)
       /\ (rtp.ts_sc.state = "INIT_STRIDE" /\ res'.op = "encoded")
            => /\ rtp'.ts_sc.state = "SEND_SCALED"
                    <=> (res'.rx_byte
                         /\ res.hist.strides = ROHC_INIT_TS_STRIDE_MIN - 1)
               /\ DynamicChainCoded => (res'.rx_byte <=> ~res'.is_ts_constant)
               /\ ~res'.rx_byte => rtp'.ts_sc = rtp.ts_sc
      ]_vars

\* the dynamic chain of an IR packet transmits ts_stride for the
\* ROHC_INIT_TS_STRIDE_MIN-th time: SEND_SCALED is reached
C13_Witness ==
    /\ res.op = "encoded"
    /\ res.packet = "PACKET_IR"
    /\ res.rx_byte
    /\ res.hist.strides = ROHC_INIT_TS_STRIDE_MIN
    /\ rtp.ts_sc.state = "SEND_SCALED"
    /\ rtp.ts_sc.nr_init_stride_packets = ROHC_INIT_TS_STRIDE_MIN

\* a dynamic chain is coded while the scaled-TS machine is in INIT_TS
ChainCodedInInitTs == DynamicChainCoded /\ rtp.ts_sc.state = "INIT_TS"

\* C14 as stated: a dynamic chain coded in INIT_TS carries no ts_stride, and
\* the scaled-TS machine has left INIT_TS only if a change of the TS was
\* observed
C14_InitStrideAfterTsChange ==
    [][/\ ChainCodedInInitTs => ~res'.rx_byte
       /\ rtp'.ts_sc.state # "INIT_TS" => res'.hist.ts_changed
      ]_vars

\* C14, amended: a packet compressed in INIT_TS is an IR packet whose
\* dynamic chain carries no ts_stride, and this first dynamic chain moves
\* the scaled-TS machine to INIT_STRIDE whether the TS changed or not;
\* nothing else leaves INIT_TS and nothing returns to it; ts_stride is
\* transmitted only when the TS is not constant
C14_InitStrideAfterFirstChain ==
    [][/\ ChainCodedInInitTs
            => (/\ ~res'.rx_byte
                /\ rtp'.ts_sc = [state |-> "INIT_STRIDE", nr_init_stride_packets |-> 0])
       /\ (res'.op = "decided" /\ rtp.ts_sc.state = "INIT_TS")
            => (res'.packet = "PACKET_IR" /\ rtp'.ts_sc.state = "INIT_TS")
       /\ (rtp.ts_sc.state = "INIT_TS" /\ ~ChainCodedInInitTs)
            => rtp'.ts_sc.state = "INIT_TS"
       /\ rtp.ts_sc.state # "INIT_TS" => rtp'.ts_sc.state # "INIT_TS"
       /\ (res'.op = "encoded" /\ res'.rx_byte)
            => (~res'.is_ts_constant /\ res'.hist.ts_changed)
      ]_vars

\* the first packet of a flow is coded as IR without ts_stride and the
\* scaled-TS machine is in INIT_STRIDE although no change of the TS was
\* observed
C14_Witness ==
    /\ res.op = "encoded"
    /\ res.packet = "PACKET_IR"
    /\ g.ir_count = 1
    /\ ~res.rx_byte
    /\ ~res.hist.ts_changed
    /\ rtp.ts_sc = [state |-> "INIT_STRIDE", nr_init_stride_packets |-> 0]

\* the states of the compressor, from the least to the most compressed
StateRank(state) == IF state = "IR" THEN 0 ELSE IF state = "FO" THEN 1 ELSE 2

\* the compressor goes back to a state of lower compression
Downgrade == StateRank(g'.state) < StateRank(g.state)

SsrcChanged == pkt.ssrc # IdlePkt.ssrc

\* C16: c_rtp_check_context returns 1 if and only if the IP/UDP check
\* returns 1, the inner IP header of a tunnel is obtained and the SSRC of the
\* packet is the one of the context; it returns the result of the IP/UDP
\* check when it is not 1, and -1 when the inner IP header cannot be
\* obtained; a packet whose SSRC changed is never compressed in the old
\* context, which it leaves as it is, and when it is compressed it is in a
\* new context, in IR state and as an IR packet
C16_CheckContextComparesSsrc ==
    [][/\ res'.op = "checked"
            => (/\ res'.ret = 1
                     <=> (/\ res.udp_check = 1
                          /\ (res.ip.proto = "UDP" \/ res.ip.inner_packet)
                          /\ ~SsrcChanged)
                /\ res.udp_check # 1 => res'.ret = res.udp_check
                /\ (res.udp_check = 1 /\ res.ip.proto # "UDP" /\ ~res.ip.inner_packet)
                     => res'.ret = -1)
       /\ SsrcChanged
            => (/\ res'.op # "changed"
                /\ res'.op \in {"checked", "failed"} => UNCHANGED <<g, rtp>>
                /\ res'.op = "decided"
                     => (g'.state = "IR" /\ res'.packet = "PACKET_IR"
                         /\ rtp'.old_rtp.ssrc = pkt.ssrc))
      ]_vars

\* a packet whose SSRC changed was refused by the context of its flow and
\* is compressed as an IR packet in a new context
C16_Witness ==
    /\ SsrcChanged
    /\ res.op = "decided"
    /\ res.ret = 0
    /\ res.udp_check = 1
    /\ res.packet = "PACKET_IR"
    /\ g.state = "IR"
    /\ rtp.old_rtp.ssrc = pkt.ssrc

\* the binary patterns of the discriminators: the packet types whose
\* pattern an octet matches
MatchedDiscriminators(octet) ==
    {t \in {"ROHC_PACKET_PT_0_CRC3", "ROHC_PACKET_NORTP_PT_0_CRC7",
            "ROHC_PACKET_NORTP_PT_1_SEQ_ID", "ROHC_PACKET_NORTP_PT_2_SEQ_ID",
            "ROHC_PACKET_CO_COMMON", "ROHC_PACKET_CO_REPAIR", "ROHC_PACKET_IR"} :
        \/ t = "ROHC_PACKET_PT_0_CRC3" /\ octet \in 0 .. 127
        \/ t = "ROHC_PACKET_NORTP_PT_0_CRC7" /\ octet \in 128 .. 159
        \/ t = "ROHC_PACKET_NORTP_PT_1_SEQ_ID" /\ octet \in 160 .. 191
        \/ t = "ROHC_PACKET_NORTP_PT_2_SEQ_ID" /\ octet \in 192 .. 223
        \/ t = "ROHC_PACKET_CO_COMMON" /\ octet = 250
        \/ t = "ROHC_PACKET_CO_REPAIR" /\ octet = 251
        \/ t = "ROHC_PACKET_IR" /\ octet = 253}

\* C20: the type detected for a packet is the one whose discriminator
\* (0xxxxxxx, 100xxxxx, 101xxxxx, 110xxxxx, 11111010, 11111011, 11111101)
\* the first octet matches, and UNKNOWN when it matches none; no octet
\* matches two discriminators, so the order of the tests does not matter
C20_DetectionByFirstOctet ==
    res.op = "detected"
      => /\ Cardinality(MatchedDiscriminators(pkt.first_octet)) <= 1
         /\ IF MatchedDiscriminators(pkt.first_octet) = {}
            THEN res.packet_type = "ROHC_PACKET_UNKNOWN"
            ELSE MatchedDiscriminators(pkt.first_octet) = {res.packet_type}

\* the octet 11111101 is detected as an IR packet
C20_Witness ==
    /\ res.op = "detected"
    /\ pkt.first_octet = 253
    /\ res.packet_type = "ROHC_PACKET_IR"

\* the packet is cut before the end of a mandatory field
Truncated(p) == p.len < HeaderLen(p)

\* the packet carries a reserved field that is not zero
CarriesReserved(p) == \E field \in ReservedFields(p) : p = WithReserved(p, field)

\* the packet carries reserved bits of the UDP dynamic part that are not
\* zero
CarriesUdpReserved(p) == p.udp_reserved # 0

\* C19 as stated: parse_pkt returns false for an IR or co_repair packet that
\* is truncated before the end of a mandatory field or that carries a
\* reserved field that is not zero
C19_MalformedRejected ==
    (res.op = "parsed" /\ (Truncated(pkt) \/ CarriesReserved(pkt)))
      => ~res.parsed.status

\* C19 but for the reserved bits of the UDP dynamic part: parse_pkt returns
\* false for a truncated packet and for a packet that carries one of the
\* other reserved fields with a value that is not zero
C19_MalformedRejectedButUdpReserved ==
    (res.op = "parsed"
     /\ (Truncated(pkt) \/ CarriesReserved([pkt EXCEPT !.udp_reserved = 0])))
      => ~res.parsed.status

\* a complete IR packet whose only defect is in the reserved bits of the
\* UDP dynamic part is parsed
C19_UdpReservedAccepted ==
    /\ res.op = "parsed"
    /\ pkt.type = "ROHC_PACKET_IR"
    /\ ~Truncated(pkt)
    /\ CarriesUdpReserved(pkt)
    /\ res.parsed.status

\* C17: attempt_repair returns false and leaves the context, the state of
\* the correction upon CRC failure and the extracted bits as they were,
\* whatever they are and whatever the arrival time of the packet
C17_NeverRepairs ==
    [][res.op = "bad_crc"
         => /\ ~res'.repaired
            /\ res'.op = "failed"
            /\ context' = context
            /\ res'.parsed = res.parsed]_vars

\* a packet of an established context failed its CRC, no repair was made
\* and the correction upon CRC failure is in a state other than the
\* initial one
C17_Witness ==
    /\ res.op = "failed"
    /\ res.status = "ROHC_STATUS_BAD_CRC"
    /\ res.pkt_arrival_time = 1
    /\ ~res.repaired
    /\ context.crc_corr.algo = "ROHC_DECOMP_CRC_CORR_SN_WRAP"
    /\ context.num_recv_packets >= 1

\* C18: the persistent context changes only when update_ctxt is called,
\* and it is what it was before the packet when the packet is dropped
\* because parse_pkt failed, decode_bits failed or build_hdrs returned
\* BAD_CRC or OUTPUT_TOO_SMALL
C18_CommitGatedOnSuccess ==
    [][/\ context'.persist # context.persist
            => res.op = "built" /\ res'.op = "updated"
       /\ res'.op = "dropped"
            => /\ context'.persist = res'.before
               /\ res'.status \in {"ROHC_STATUS_MALFORMED", "ROHC_STATUS_ERROR",
                                   "ROHC_STATUS_BAD_CRC",
                                   "ROHC_STATUS_OUTPUT_TOO_SMALL"}]_vars

\* a decoded co_repair packet with another MSN than the one of the context
\* is dropped for a bad CRC
C18_Witness ==
    /\ res.op = "dropped"
    /\ res.status = "ROHC_STATUS_BAD_CRC"
    /\ pkt.type = "ROHC_PACKET_CO_REPAIR"
    /\ res.decoded.msn # context.persist.msn_ref
    /\ context.persist = res.before

\* the compressor of the IP-only profile emitted an IR packet
IREmitted == last.op = "encode" /\ last.ret >= 0 /\ last.packet_type = "IR"

\* C21 as stated: the type octet of every IR packet emitted by the ROHCv2
\* IP-only compressor is 1111 1101, and the ROHCv2 packet-type detection
\* classifies it as IR
C21_IRWireFormat ==
    IREmitted
      => /\ last.rohc[TypeOctetPosition] = ROHC_PACKET_TYPE_IR
         /\ decomp_rfc5225_ip_udp_rtp_detect_pkt_type(last.rohc[TypeOctetPosition])
              = "ROHC_PACKET_IR"

\* what the compressor emits: the type octet 1111 1100, which the detection
\* does not know, then the CID bytes, the profile octet and the CRC-8, and
\* then the whole uncompressed packet, without any static or dynamic chain
C21_IREmittedWithOctetFC ==
    IREmitted
      => /\ last.rohc[TypeOctetPosition] = IR_TYPE_OCTET
         /\ decomp_rfc5225_ip_udp_rtp_detect_pkt_type(last.rohc[TypeOctetPosition])
              = "ROHC_PACKET_UNKNOWN"
         /\ last.payload_offset = 0
         /\ SubSeq(last.rohc, last.ret + 1, Len(last.rohc)) = last.uncomp
         /\ last.ret = code_cid_values(cid_type, cid, last.ret).ret + 2

\* the behaviors of the IP-ID of the IPv4 headers of a packet, in the order
\* of the headers
Ipv4IdBehaviors(ip) ==
    LET ipv4 == SelectSeq(ip, LAMBDA h : IpVersion(h) = "IPV4")
    IN [k \in 1 .. Len(ipv4) |-> ipv4[k].ip_id_behavior]

\* C22: the bits of a co_repair packet are decoded only if its control CRC
\* is the CRC-3 over the decoded reorder ratio, the decoded MSN and the
\* behaviors of the IP-ID of its IPv4 headers in the order of the headers,
\* the IPv6 headers giving nothing; an IR packet has no control CRC and its
\* bits are always decoded
C22_ControlCrcChecked ==
    /\ (res.op = "decoded" /\ pkt.type = "ROHC_PACKET_CO_REPAIR")
         => /\ res.parsed.bits.ctrl_crc.type = "ROHC_CRC_TYPE_3"
            /\ pkt.ctrl_crc = compute_crc_ctrl_fields(res.decoded.reorder_ratio,
                                                      res.decoded.msn,
                                                      Ipv4IdBehaviors(pkt.ip))
    /\ (res.op \in {"parsed", "decoded"} /\ pkt.type = "ROHC_PACKET_IR")
         => res.parsed.bits.ctrl_crc.type = "ROHC_CRC_TYPE_NONE"
    /\ (res.status = "ROHC_STATUS_ERROR") => pkt.type = "ROHC_PACKET_CO_REPAIR"

\* a co_repair packet with an IPv6 header before an IPv4 header and a
\* reorder ratio that is not zero was decoded
C22_Witness ==
    /\ res.op = "decoded"
    /\ pkt.type = "ROHC_PACKET_CO_REPAIR"
    /\ Len(pkt.ip) = 2
    /\ IpVersion(pkt.ip[1]) = "IPV6"
    /\ IpVersion(pkt.ip[2]) = "IPV4"
    /\ res.decoded.reorder_ratio = ROHC_REORDERING_QUARTER
    /\ res.decoded.msn = 2

\* C23: after update_ctxt the context holds the decoded values: the MSN,
\* the number of IP headers, for every IP header its version, TOS/TC,
\* TTL/HL, next header, behavior of the IP-ID, addresses and DF and IP-ID
\* (IPv4) or flow label (IPv6), whether the UDP checksum is used, and for
\* an innermost IPv4 header the offset (IP-ID - MSN) mod 2^16, taken on the
\* swapped IP-ID if the IP-ID is sequential swapped
C23_ContextConverges ==
    res.op = "updated" =>
      LET d == res.decoded
          c == context.persist
          inner == d.ip[d.ip_nr]
      IN /\ c.msn_ref = d.msn
         /\ c.ip_contexts_nr = d.ip_nr
         /\ d.ip_nr \in 1 .. ROHC_MAX_IP_HDRS
         /\ \A i \in 1 .. d.ip_nr :
              /\ c.ip_contexts[i].version = d.ip[i].version
              /\ c.ip_contexts[i].tos_tc = d.ip[i].tos_tc
              /\ c.ip_contexts[i].ttl_hopl = d.ip[i].ttl
              /\ c.ip_contexts[i].next_header = d.ip[i].proto
              /\ c.ip_contexts[i].ip_id_behavior = d.ip[i].id_behavior
              /\ c.ip_contexts[i].src_addr = d.ip[i].saddr
              /\ c.ip_contexts[i].dst_addr = d.ip[i].daddr
              /\ d.ip[i].version = "IPV4"
                   => /\ c.ip_contexts[i].df = d.ip[i].df
                      /\ c.ip_contexts[i].ip_id = d.ip[i].id
              /\ d.ip[i].version = "IPV6"
                   => c.ip_contexts[i].flow_label = d.ip[i].flowid
         /\ c.udp_checksum_used = (d.udp_checksum # 0)
         /\ inner.version = "IPV4"
              => c.ip_id_offset_ref =
                   (IF inner.id_behavior = "ROHC_IP_ID_BEHAVIOR_SEQ_SWAP"
                    THEN ((inner.id % 256) * 256 + inner.id \div 256) - d.msn
                    ELSE inner.id - d.msn) % 65536

\* the context was updated for a packet with the UDP checksum and a
\* sequential swapped IP-ID of 0x0102: the offset is 0x0201 - 2
C23_Witness ==
    /\ res.op = "updated"
    /\ res.decoded.udp_checksum # 0
    /\ res.decoded.ip_nr = 1
    /\ res.decoded.ip[1].id_behavior = "ROHC_IP_ID_BEHAVIOR_SEQ_SWAP"
    /\ res.decoded.ip[1].id = 258
    /\ res.decoded.msn = 2
    /\ context.persist.ip_id_offset_ref = 511

\* the context holds the UDP ports of the IR packet it was updated for
C24_PortsStored ==
    (res.op = "updated" /\ pkt.type = "ROHC_PACKET_IR")
      => /\ context.persist.udp_sport = pkt.udp_sport
         /\ context.persist.udp_dport = pkt.udp_dport

\* the UDP header of a co_repair packet is built with the UDP ports of the
\* last IR packet the context was updated for
C24_RebuiltWithPortsOfIR ==
    (res.op \in {"built", "updated"} /\ pkt.type = "ROHC_PACKET_CO_REPAIR")
      => /\ res.udp_hdr.source = res.ir_ports.udp_sport
         /\ res.udp_hdr.dest = res.ir_ports.udp_dport

\* C24: once the context was updated for an IR packet, it holds the UDP
\* ports of that packet, and the UDP header of every later co_repair packet
\* is built with these ports, whatever packets were parsed in between
C24_StaticUdpConverges ==
    /\ C24_PortsStored
    /\ C24_RebuiltWithPortsOfIR

\* C25: a new context has the reorder ratio NONE, and once the context was
\* updated for a packet that carries a reorder ratio, it holds that reorder
\* ratio
C25_ReorderRatioKept ==
    /\ context.num_recv_packets = 0
         => context.persist.reorder_ratio = ROHC_REORDERING_NONE
    /\ (res.op = "updated" /\ res.parsed.bits.reorder_ratio_nr > 0)
         => context.persist.reorder_ratio = pkt.reorder_ratio

\* the reorder ratio of the context never changes
C25_ReorderRatioNeverWritten ==
    context.persist.reorder_ratio = ROHC_REORDERING_NONE

\* the positions of the IP headers of a static chain that have the
\* innermost flag, among the first ROHC_MAX_IP_HDRS
InnermostPositions(ip) ==
    {i \in 1 .. ROHC_MAX_IP_HDRS : i <= Len(ip) /\ ip[i].innermost_ip = 1}

\* the first of a set of positions that is not empty
FirstPosition(positions) == CHOOSE i \in positions : \A j \in positions : i <= j

\* the sum of the lengths of the static parts of the first n IP headers
RECURSIVE SumIpStaticLen(_, _)
SumIpStaticLen(ip, n) ==
    IF n = 0 THEN 0 ELSE SumIpStaticLen(ip, n - 1) + IpStaticLen(ip[n])

\* C26: parse_static_chain takes the static parts of the IP headers in
\* order up to the first one with the innermost flag; it fails if none of
\* the first ROHC_MAX_IP_HDRS has the flag; when it succeeds, ip_nr is the
\* position of that header, between 1 and ROHC_MAX_IP_HDRS, parsed_len is
\* the sum of the lengths of these static parts plus the UDP static part,
\* and the loop ran ip_nr times
C26_StaticChainEndsAtInnermost ==
    res.op = "static" =>
      LET r == res.static
          positions == InnermostPositions(pkt.ip)
      IN /\ positions = {} => ~r.status
         /\ r.status
              => /\ positions # {}
                 /\ r.bits.ip_nr = FirstPosition(positions)
                 /\ r.bits.ip_nr \in 1 .. ROHC_MAX_IP_HDRS
                 /\ r.loops = r.bits.ip_nr
                 /\ Len(r.bits.ip) = r.bits.ip_nr
                 /\ \A i \in 1 .. r.bits.ip_nr :
                      r.bits.ip[i].version = IpVersion(pkt.ip[i])
                 /\ r.parsed_len = SumIpStaticLen(pkt.ip, r.bits.ip_nr)
                                     + sizeof_udp_static_t
                 /\ r.parsed_len <= res.rohc_len

\* a static chain of two IP headers was parsed up to its second header
C26_Witness ==
    /\ res.op = "static"
    /\ res.static.status
    /\ res.static.bits.ip_nr = ROHC_MAX_IP_HDRS
    /\ pkt.ip[1].innermost_ip = 0
    /\ res.static.parsed_len < res.rohc_len

\* a static chain without the innermost flag in its first ROHC_MAX_IP_HDRS
\* headers was given in full and rejected
C26_TooManyHeadersRejected ==
    /\ res.op = "static"
    /\ ~res.static.status
    /\ Len(pkt.ip) = 3
    /\ res.rohc_len >= StaticChainLen(pkt)

\* the outer, or the inner, IP header is IPv4 with a non-random IP-ID and
\* has bits of IP-ID to transmit
OuterHasIpIdBits == is_ipv4_non_rnd(g.ip_flags) /\ g.nr_ip_id_bits > 0
InnerHasIpIdBits == is_ipv4_non_rnd(g.ip2_flags) /\ g.nr_ip_id_bits2 > 0

\* C27: in SO state with two IP headers, UO-1-ID is chosen only when
\* exactly one of the two headers is IPv4 with a non-random IP-ID and has
\* bits of IP-ID to transmit, that header needs at most 5 bits of IP-ID,
\* nr_sn_bits <= 4, nr_ts_bits = 0 and M = 0
C27_DoubleUO1IDFitsIpId ==
    (res.op = "decide_SO" /\ g.nr_of_ip_hdr = 2 /\ res.packet = "PACKET_UO_1_ID")
      => /\ OuterHasIpIdBits # InnerHasIpIdBits
         /\ OuterHasIpIdBits => g.nr_ip_id_bits <= 5
         /\ InnerHasIpIdBits => g.nr_ip_id_bits2 <= 5
         /\ g.nr_sn_bits <= 4
         /\ rtp.tmp.nr_ts_bits = 0
         /\ rtp.tmp.m_set = 0

\* what holds of UO-1-ID with two IP headers: one of the two numbers of
\* bits of IP-ID is at most 5, whichever header it belongs to
C27_DoubleUO1IDEitherIpId ==
    (res.op = "decide_SO" /\ g.nr_of_ip_hdr = 2 /\ res.packet = "PACKET_UO_1_ID")
      => /\ OuterHasIpIdBits # InnerHasIpIdBits
         /\ g.nr_ip_id_bits <= 5 \/ g.nr_ip_id_bits2 <= 5
         /\ g.nr_sn_bits <= 4
         /\ rtp.tmp.nr_ts_bits = 0
         /\ rtp.tmp.m_set = 0

\* UO-1-ID chosen for two IPv4 headers with non-random IP-ID, 6 bits of
\* IP-ID for the outer one and none for the inner one
C27_UO1IDWith6IpIdBits ==
    /\ res.op = "decide_SO"
    /\ g.nr_of_ip_hdr = 2
    /\ res.packet = "PACKET_UO_1_ID"
    /\ is_ipv4_non_rnd(g.ip_flags)
    /\ is_ipv4_non_rnd(g.ip2_flags)
    /\ g.nr_ip_id_bits = 6
    /\ g.nr_ip_id_bits2 = 0

\* the packets of the SO state: UO-0, the UO-1 variants and the UOR-2
\* variants
PacketsOfSO ==
    {"PACKET_UO_0", "PACKET_UO_1_RTP", "PACKET_UO_1_ID", "PACKET_UO_1_TS",
     "PACKET_UOR_2_RTP", "PACKET_UOR_2_ID", "PACKET_UOR_2_TS"}

\* C28: in SO state, with one IP header or two, c_rtp_decide_SO_packet
\* chooses among UO-0, the UO-1 variants and the UOR-2 variants, never IR,
\* IR-DYN or an unknown type
C28_SOChoosesUOPackets ==
    res.op = "decide_SO" => res.packet \in PacketsOfSO

\* with a single IP header the SO decision is one of these packets; with
\* two it is one of them or IR-DYN
C28_SOChoosesUOPacketsOrIRDYN ==
    res.op = "decide_SO"
      => \/ res.packet \in PacketsOfSO
         \/ g.nr_of_ip_hdr = 2 /\ res.packet = "PACKET_IR_DYN"

\* the UOR-2 variants
PacketsUOR2 == {"PACKET_UOR_2_RTP", "PACKET_UOR_2_ID", "PACKET_UOR_2_TS"}

\* C29: a UOR-2 variant is chosen by the FO or the SO decision only when
\* nr_sn_bits <= 14, and the FO decision is IR-DYN or a UOR-2 variant
C29_UOR2OnlyWith14SnBits ==
    /\ (res.op \in {"decide_FO", "decide_SO"} /\ res.packet \in PacketsUOR2)
         => g.nr_sn_bits <= 14
    /\ res.op = "decide_FO" => res.packet \in PacketsUOR2 \cup {"PACKET_IR_DYN"}

\* what holds of the FO decision: IR-DYN or a UOR-2 variant, and a UOR-2
\* variant with more than 14 bits of SN only after a change of a static
\* field
C29_FOChoosesIRDYNOrUOR2 ==
    res.op = "decide_FO"
      => /\ res.packet \in PacketsUOR2 \cup {"PACKET_IR_DYN"}
         /\ (res.packet \in PacketsUOR2 /\ g.nr_sn_bits > 14) => g.send_static

\* the UDP/RTP headers of the packet given to c_rtp_encode, as the context
\* stores them
UdpOfPacket == [check |-> pkt.check]
RtpOfPacket == [ssrc |-> pkt.ssrc, pt |-> pkt.pt, cc |-> pkt.cc]

\* C30: when c_rtp_encode ends with an IR or IR-DYN packet, old_udp and
\* old_rtp are the UDP and RTP headers of the packet just compressed; they
\* do not change when it ends with another packet, when the encoding
\* fails, nor on any step before its end
C30_OldHeadersCopiedOnCommit ==
    [][/\ (res'.op = "encoded" /\ res.packet \in {"PACKET_IR", "PACKET_IR_DYN"})
            => /\ rtp'.old_udp = UdpOfPacket
               /\ rtp'.old_rtp = RtpOfPacket
       /\ ~(res'.op = "encoded" /\ res.packet \in {"PACKET_IR", "PACKET_IR_DYN"})
            => /\ rtp'.old_udp = rtp.old_udp
               /\ rtp'.old_rtp = rtp.old_rtp]_vars

\* an IR-DYN packet was emitted for a packet whose UDP checksum and CSRC
\* count are now in the context and are not those the context was created
\* with
C30_Witness ==
    /\ res.op = "encoded"
    /\ res.packet = "PACKET_IR_DYN"
    /\ rtp.old_udp = UdpOfPacket
    /\ rtp.old_rtp = RtpOfPacket
    /\ UdpOfPacket # IdleRtp.old_udp

\* a UOR-2 packet was emitted and the context still holds UDP/RTP headers
\* that are not those of the packet
C30_OtherPacketKeepsOldHeaders ==
    /\ res.op = "encoded"
    /\ res.packet \in PacketsUOR2
    /\ (rtp.old_udp # UdpOfPacket \/ rtp.old_rtp # RtpOfPacket)

\* the encoding failed and the context still holds UDP/RTP headers that are
\* not those of the packet
C30_FailureKeepsOldHeaders ==
    /\ res.op = "failed"
    /\ (rtp.old_udp # UdpOfPacket \/ rtp.old_rtp # RtpOfPacket)

\* C31: when c_rtp_encode fails, udp_checksum_change_count,
\* rtp_pt_change_count, old_udp and old_rtp have the values they had when
\* c_rtp_encode was entered
C31_FailedEncodeKeepsContext ==
    res.op = "failed" => PersistentRtp(rtp) = res.before

\* the encoding failed and the context holds the UDP/RTP headers it held
\* when c_rtp_encode was entered, which are not those of the packet
C31_FailureKeepsOldHeaders ==
    /\ res.op = "failed"
    /\ rtp.old_udp = res.before.old_udp
    /\ rtp.old_rtp = res.before.old_rtp
    /\ rtp.old_udp # UdpOfPacket

\* no failure of c_rtp_encode changes old_udp, old_rtp or
\* rtp_pt_change_count when the payload type of the flow does not change
C31_FailedEncodeKeepsOldHeaders ==
    res.op = "failed"
        => /\ rtp.old_udp = res.before.old_udp
           /\ rtp.old_rtp = res.before.old_rtp
           /\ rtp.rtp_pt_change_count = res.before.rtp_pt_change_count

\* 1 when the condition holds, 0 otherwise
Count(cond) == IF cond THEN 1 ELSE 0

\* C40: rtp_changed_rtp_dynamic returns twice [the CC differs from the
\* last observed one] plus [the SSRC differs] plus [the PT differs or
\* rtp_pt_change_count < MAX_IR_COUNT]; neither a flip of the use of the UDP
\* checksum nor the marker bit adds to the count; a flip of the checksum
\* resets udp_checksum_change_count to 0, a change of the PT resets
\* rtp_pt_change_count to 0, the counters are otherwise kept, and m_set is
\* 1 if and only if the marker bit of the packet is set
C40_ChangedFieldsCounted ==
    [][res'.op = "changed" =>
         /\ rtp'.tmp.send_rtp_dynamic =
               2 * Count(pkt'.cc # rtp.old_rtp.cc)
               + Count(pkt'.ssrc # rtp.old_rtp.ssrc)
               + Count(pkt'.pt # rtp.old_rtp.pt
                       \/ rtp.rtp_pt_change_count < MAX_IR_COUNT)
         /\ rtp'.udp_checksum_change_count =
               IF (pkt'.check # 0) # (rtp.old_udp.check # 0) THEN 0
               ELSE rtp.udp_checksum_change_count
         /\ rtp'.rtp_pt_change_count =
               IF pkt'.pt # rtp.old_rtp.pt THEN 0 ELSE rtp.rtp_pt_change_count
         /\ (rtp'.tmp.m_set = 1) <=> (pkt'.m # 0)
         /\ rtp'.tmp.m_set \in {0, 1}]_vars

\* the use of the UDP checksum flipped and the marker bit is set on a
\* packet with the CC, SSRC and PT of the context, after the PT was
\* transmitted MAX_IR_COUNT times: no field is counted, the checksum counter
\* is reset and m_set is raised
C40_Witness ==
    /\ res.op = "changed"
    /\ (pkt.check # 0) # (rtp.old_udp.check # 0)
    /\ pkt.m = 1
    /\ rtp.tmp.m_set = 1
    /\ rtp.tmp.send_rtp_dynamic = 0
    /\ res.before.udp_checksum_change_count = MAX_IR_COUNT
    /\ rtp.udp_checksum_change_count = 0
    /\ rtp.rtp_pt_change_count >= MAX_IR_COUNT

\* the CC, the SSRC and the PT all differ from those of the context: 4
\* fields are counted and the PT counter is reset
C40_AllFieldsChanged ==
    /\ res.op = "changed"
    /\ rtp.tmp.send_rtp_dynamic = 4
    /\ res.before.rtp_pt_change_count > 0
    /\ rtp.rtp_pt_change_count = 0

\* the PT is the one of the context but was transmitted less than
\* MAX_IR_COUNT times: it is counted as the only changed field
C40_RecentPtChangeCounted ==
    /\ res.op = "changed"
    /\ pkt.pt = rtp.old_rtp.pt
    /\ rtp.rtp_pt_change_count < MAX_IR_COUNT
    /\ rtp.rtp_pt_change_count > 0
    /\ rtp.tmp.send_rtp_dynamic = 1

\* C38: every call of rtp_decide_state with send_rtp_dynamic != 0 on a
\* context in FO or SO state leaves the context in IR or FO state, whatever
\* the generic decide_state would decide from send_static, send_dynamic
\* and fo_count
C38_RtpDynamicForcesIRorFO ==
    [][(/\ res'.op = "decided"
        /\ rtp.tmp.send_rtp_dynamic # 0
        /\ g.state \in {"FO", "SO"})
           => g'.state \in {"IR", "FO"}]_vars

\* UDP/RTP fields changed while no field of the IP headers changed, on a
\* context that has been in FO state for MAX_FO_COUNT packets: the generic
\* decision would go to SO state, the context stays in FO state
C38_Witness ==
    /\ res.op = "decided"
    /\ rtp.tmp.send_rtp_dynamic # 0
    /\ rtp.udp_checksum_change_count >= MAX_IR_COUNT
    /\ ~res.is_ts_constant
    /\ ~g.send_static
    /\ g.send_dynamic = 0
    /\ g.state = "FO"
    /\ g.fo_count > MAX_FO_COUNT

\* UDP/RTP fields changed together with a static field of the IP headers
\* on a context that is not in IR state: the generic decision would go to
\* IR state, the context is in FO state
C38_StaticChangeNotConsulted ==
    /\ res.op = "decided"
    /\ rtp.tmp.send_rtp_dynamic # 0
    /\ g.send_static
    /\ g.state = "FO"

\* the number of IP headers of the context that are IPv4 headers with a
\* non-random IP-ID
NrIpv4NonRnd ==
    IF g.nr_of_ip_hdr = 1 THEN Count(is_ipv4_non_rnd(g.ip_flags))
    ELSE nr_ipv4_non_rnd(g)

\* C37: the packet chosen by the FO and SO decisions matches the IP-ID
\* behaviour: UO-1-RTP and UOR-2-RTP only when no IP header is IPv4 with a
\* non-random IP-ID; UO-1-ID, UO-1-TS, UOR-2-ID and UOR-2-TS only when at
\* least one IP header is
C37_PacketMatchesIpIdBehavior ==
    res.op \in {"decide_FO", "decide_SO"}
        => /\ res.packet \in {"PACKET_UO_1_RTP", "PACKET_UOR_2_RTP"}
                => NrIpv4NonRnd = 0
           /\ res.packet \in {"PACKET_UO_1_ID", "PACKET_UO_1_TS",
                               "PACKET_UOR_2_ID", "PACKET_UOR_2_TS"}
                => NrIpv4NonRnd >= 1

\* the same, for the decisions taken when no static field changed
C37_PacketMatchesIpIdUnlessStatic ==
    (res.op \in {"decide_FO", "decide_SO"} /\ ~g.send_static)
        => /\ res.packet \in {"PACKET_UO_1_RTP", "PACKET_UOR_2_RTP"}
                => NrIpv4NonRnd = 0
           /\ res.packet \in {"PACKET_UO_1_ID", "PACKET_UO_1_TS",
                               "PACKET_UOR_2_ID", "PACKET_UOR_2_TS"}
                => NrIpv4NonRnd >= 1

\* C34: for a feedback whose type is not FEEDBACK-1,
\* rohc_comp_rfc5225_ip_feedback returns false and leaves the mode and the
\* state of the context, and its counters, as they were
C34_OtherFeedbackRejected ==
    [][last'.op \notin {"none", "encode", "FEEDBACK_1"}
          => /\ last'.ret = 0
             /\ context'.mode = context.mode
             /\ context'.state = context.state
             /\ context' = context]_vars

\* a FEEDBACK-2 was rejected by a context in U-mode and IR state that
\* already emitted packets: a FEEDBACK-1 would have moved it to O-mode
\* and FO state
C34_Witness ==
    /\ last.op = "FEEDBACK_2"
    /\ last.ret = 0
    /\ last.payload_offset = 0
    /\ context.mode = "U"
    /\ context.state = "IR"
    /\ context.ir_count > 0

\* C39: the ROHCv2 IP-only compressor has only the states IR and FO: from
\* the IR state, after any sequence of encodings, feedbacks and periodic
\* refreshes the state is IR or FO; code_packet always selects IR (in IR
\* state) or Normal (in FO state), never its 'unknown state' branch; an IR
\* adds one to ir_count and a Normal adds one to fo_count, counted from the
\* context that decide_state left
C39_OnlyIRAndFO ==
    [][/\ context.state \in {"IR", "FO"}
       /\ context'.state \in {"IR", "FO"}
       /\ last'.op = "encode" =>
            LET d == rohc_comp_rfc5225_ip_decide_state(context, last'.version,
                                                       last'.refresh)
            IN /\ last'.packet_type \in {"IR", "NORMAL"}
               /\ last'.packet_type = "IR"
                    => /\ context'.state = "IR"
                       /\ context'.ir_count = d.ir_count + 1
                       /\ context'.fo_count = d.fo_count
               /\ last'.packet_type = "NORMAL"
                    => /\ context'.state = "FO"
                       /\ context'.fo_count = d.fo_count + 1
                       /\ context'.ir_count = d.ir_count]_vars

\* a Normal packet was built in O-mode by a context that has built more
\* than MAX_FO_COUNT Normal packets in a row: it is still in FO state
C39_Witness ==
    /\ last.op = "encode"
    /\ last.packet_type = "NORMAL"
    /\ last.ret > 0
    /\ context.mode = "O"
    /\ context.state = "FO"
    /\ context.fo_count > MAX_FO_COUNT

\* the profile parses the packet on this step
ParseStep == res.op = "received" /\ res'.op \in {"parsed", "failed"}

\* C33: whenever parse_co_repair runs, the context is in SC or FC state and
\* has committed at least one packet, so the extracted bits are seeded
\* with the ip_nr >= 1 IP headers of the context (the assertions of
\* parse_co_repair and of parse_dyn_chain hold); a co_repair packet for a
\* context without static information is dropped before it is parsed
C33_CoRepairOnEstablishedContext ==
    [][/\ (ParseStep /\ pkt.type = "ROHC_PACKET_CO_REPAIR")
            => /\ context.state \in {"SC", "FC"}
               /\ context.num_recv_packets >= 1
               /\ decomp_rfc5225_ip_udp_rtp_reset_extr_bits(context).ip_nr >= 1
               /\ decomp_rfc5225_ip_udp_rtp_reset_extr_bits(context).ip_nr
                     = context.persist.ip_contexts_nr
               /\ res'.parsed.bits.ip_nr >= 1
       /\ (pkt'.type = "ROHC_PACKET_CO_REPAIR" /\ context.state = "NC"
              /\ res'.op # res.op)
            => /\ res'.op = "no_context"
               /\ context' = context]_vars

\* a co_repair packet was parsed for a context in SC state, with the IP
\* header of the context
C33_Witness ==
    /\ res.op = "parsed"
    /\ pkt.type = "ROHC_PACKET_CO_REPAIR"
    /\ context.state = "SC"
    /\ context.num_recv_packets = 1
    /\ res.parsed.bits.ip_nr = 1
    /\ res.parsed.bits.ip[1].version = context.persist.ip_contexts[1].version

\* a co_repair packet was dropped, unparsed, for a context that went back
\* to the NC state after it had committed a packet
C33_DroppedInNCState ==
    /\ res.op = "no_context"
    /\ pkt.type = "ROHC_PACKET_CO_REPAIR"
    /\ context.state = "NC"
    /\ context.num_recv_packets >= 1

\* C35: only the IR and co_repair packets are parsed: parse_pkt returns
\* false for a packet of every other type that detect_pkt_type tells
\* (pt_0_crc3, pt_0_crc7, pt_1_seq_id, pt_2_seq_id, co_common, unknown), so
\* the persistent context only changes for an IR or a co_repair packet
C35_OnlyIRAndCoRepairParsed ==
    [][/\ (ParseStep /\ pkt.type \notin {"ROHC_PACKET_IR", "ROHC_PACKET_CO_REPAIR"})
            => /\ ~res'.parsed.status
               /\ res'.op = "failed"
               /\ res'.status = "ROHC_STATUS_MALFORMED"
       /\ context'.persist # context.persist
            => pkt.type \in {"ROHC_PACKET_IR", "ROHC_PACKET_CO_REPAIR"}
       /\ context'.num_recv_packets # context.num_recv_packets
            => pkt.type \in {"ROHC_PACKET_IR", "ROHC_PACKET_CO_REPAIR"}]_vars

\* a co_common packet with the octets of a co_repair packet that the
\* context would accept was dropped as malformed; the context is the one
\* that the IR packet left
C35_Witness ==
    /\ res.op = "dropped"
    /\ res.status = "ROHC_STATUS_MALFORMED"
    /\ pkt.type = "ROHC_PACKET_CO_COMMON"
    /\ pkt.msn = context.persist.msn_ref
    /\ context.state = "SC"
    /\ context.num_recv_packets = 1
    /\ context.persist = res.before

\* the two bytes of a 16-bit value, swapped
Swapped(n) == (n % 256) * 256 + (n \div 256)

\* C32: the dynamic part of an IPv4 header carries a 16-bit IP-ID if and
\* only if its behavior is not 'zero'; 16 received bits of IP-ID are taken
\* as they are; with no bit of IP-ID the decoded IP-ID is 0 for 'zero',
\* (IP-ID of the context + (MSN - reference MSN)) mod 2^16 for
\* 'sequential', the byte swap of ((byte-swapped IP-ID of the context) +
\* (MSN - reference MSN)) mod 2^16 for 'sequential swapped', and the
\* decoding fails for 'random'; bits of IP-ID for an IPv6 header make the
\* decoding fail
C32_IpIdReconstructed ==
    LET ip_ctxt == context.persist.ip_contexts[1]
        behavior == IF res.ip_bits.id_behavior_nr > 0
                    THEN res.ip_bits.id_behavior
                    ELSE ip_ctxt.ip_id_behavior
        delta == res.msn - context.persist.msn_ref
        v4 == res.ip_bits.version = "IPV4"
    IN /\ (res.op \in {"parsed", "decoded", "failed"} /\ res.carried /\ v4)
            => /\ res.ip_bits.id_bits_nr
                    = IF pkt.ip_id_behavior # "ROHC_IP_ID_BEHAVIOR_ZERO" THEN 16 ELSE 0
               /\ res.ret = sizeof_ipv4_regular_dynamic_noipid_t
                              + (IF pkt.ip_id_behavior # "ROHC_IP_ID_BEHAVIOR_ZERO"
                                 THEN 2 ELSE 0)
               /\ res.ip_bits.id_bits_nr = 16 => res.ip_bits.id = pkt.ip_id
               /\ behavior = pkt.ip_id_behavior
       /\ (res.op \in {"decoded", "failed"} /\ v4 /\ res.ip_bits.id_bits_nr = 16)
            => /\ res.op = "decoded"
               /\ res.decoded.ip.id = res.ip_bits.id
               /\ res.decoded.ip.id = pkt.ip_id
       /\ (res.op \in {"decoded", "failed"} /\ v4 /\ res.ip_bits.id_bits_nr = 0)
            => /\ behavior = "ROHC_IP_ID_BEHAVIOR_ZERO"
                    => res.op = "decoded" /\ res.decoded.ip.id = 0
               /\ behavior = "ROHC_IP_ID_BEHAVIOR_SEQ"
                    => /\ res.op = "decoded"
                       /\ res.decoded.ip.id = (ip_ctxt.ip_id + delta) % 65536
               /\ behavior = "ROHC_IP_ID_BEHAVIOR_SEQ_SWAP"
                    => /\ res.op = "decoded"
                       /\ res.decoded.ip.id
                            = Swapped((Swapped(ip_ctxt.ip_id) + delta) % 65536)
               /\ behavior = "ROHC_IP_ID_BEHAVIOR_RAND"
                    => res.op = "failed"
       /\ (res.op \in {"decoded", "failed"} /\ ~v4 /\ res.ip_bits.id_bits_nr > 0)
            => res.op = "failed"

\* a sequential swapped IP-ID 0x0102 was inferred for the MSN 0 that
\* follows the reference MSN 65535: the decoded IP-ID is 0x0202
C32_Witness ==
    /\ res.op = "decoded"
    /\ ~res.carried
    /\ res.ip_bits.version = "IPV4"
    /\ res.ip_bits.id_bits_nr = 0
    /\ context.persist.ip_contexts[1].ip_id_behavior = "ROHC_IP_ID_BEHAVIOR_SEQ_SWAP"
    /\ context.persist.ip_contexts[1].ip_id = 258
    /\ context.persist.msn_ref = 65535
    /\ res.msn = 0
    /\ res.decoded.ip.id = 514

\* a sequential IP-ID 65535 was inferred for the MSN after the reference
\* MSN: the decoded IP-ID wraps to 0
C32_SequentialWraps ==
    /\ res.op = "decoded"
    /\ res.ip_bits.id_bits_nr = 0
    /\ context.persist.ip_contexts[1].ip_id_behavior = "ROHC_IP_ID_BEHAVIOR_SEQ"
    /\ context.persist.ip_contexts[1].ip_id = 65535
    /\ context.persist.msn_ref = 1
    /\ res.msn = 2
    /\ res.decoded.ip.id = 0

\* the dynamic part of an IPv4 header with a random IP-ID carried its 16
\* bits, decoded as they are for a context whose behavior was 'zero'
C32_RandomCarried ==
    /\ res.op = "decoded"
    /\ res.carried
    /\ res.ret = sizeof_ipv4_regular_dynamic_ipid_t
    /\ pkt.ip_id_behavior = "ROHC_IP_ID_BEHAVIOR_RAND"
    /\ context.persist.ip_contexts[1].ip_id_behavior = "ROHC_IP_ID_BEHAVIOR_ZERO"
    /\ res.decoded.ip.id = 513

\* the decoding failed for an inferred random IP-ID
C32_RandomNotInferred ==
    /\ res.op = "failed"
    /\ res.ip_bits.version = "IPV4"
    /\ res.ip_bits.id_bits_nr = 0

\* the decoding failed for 16 bits of IP-ID received for an IPv6 header
C32_IpIdBitsForIPv6 ==
    /\ res.op = "failed"
    /\ res.ip_bits.version = "IPV6"
    /\ res.ip_bits.id_bits_nr = 16

\* the payload type of the flow has changed
PtChanged == pkt.pt # IdlePkt.pt

\* C36: a change of the RTP payload type is eventually absorbed: once the
\* payload type has changed and stays constant, after finitely many
\* packets rtp_changed_rtp_dynamic no longer counts it (send_rtp_dynamic is
\* back to 0), whatever packets the compressor answers the change with
C36_PtChangeAbsorbed ==
    PtChanged ~> (res.op = "changed" /\ rtp.tmp.send_rtp_dynamic = 0)

\* the change of payload type was absorbed: the compressor answered it
\* with IR or IR-DYN packets, which store the payload type in the context
\* and count its transmissions
C36_AbsorbedByDynamicChains ==
    /\ PtChanged
    /\ res.op = "changed"
    /\ rtp.tmp.send_rtp_dynamic = 0
    /\ rtp.old_rtp.pt = pkt.pt
    /\ rtp.rtp_pt_change_count >= MAX_IR_COUNT

\* a UOR-2 packet, with or without extension 3, leaves the payload type of
\* the context and rtp_pt_change_count as they are
C36_UOR2KeepsPtOfContext ==
    [][(res'.op = "encoded" /\ res.packet \in PacketsUOR2)
          => /\ rtp'.old_rtp.pt = rtp.old_rtp.pt
             /\ rtp'.rtp_pt_change_count = rtp.rtp_pt_change_count]_vars

\* the change of payload type was answered with a UOR-2 packet that
\* carries extension 3; the context still holds the former payload type
C36_AnsweredWithUOR2 ==
    /\ PtChanged
    /\ res.op = "encoded"
    /\ res.packet \in PacketsUOR2
    /\ res.ext = "PACKET_EXT_3"
    /\ rtp.old_rtp.pt # pkt.pt
    /\ rtp.rtp_pt_change_count = 0
=============================================================================
